---- MODULE Spec2Model ----
(***************************************************************************)
(* Model of the VM lifecycle engine of firec (src/src/machine.rs): one     *)
(* Machine built by Machine::create, the host process table, the control   *)
(* socket served by the jailed firecracker process, and the operations     *)
(* create, start, shutdown, force_shutdown and delete.  The handlers are   *)
(* split at their await points, so that the environment (process exits,    *)
(* server answers) interleaves where the code suspends.                    *)
(***************************************************************************)
EXTENDS Integers, Naturals, Sequences, FiniteSets, TLC

\* ---------------------------------------------------------------- bounds
\* Number of jailer processes the host may be asked to spawn in one run.
MaxStarts == 2
\* Largest number of drives of a Config.
MaxDrives == 2
\* Largest number of network interfaces of a Config.
MaxIfaces == 2
\* Duration of a slow GET /version round trip, in poll intervals.
SlowProbeTicks == 25

\* ------------------------------------------------------- program constants
\* JAILER_START_TIMEOUT = Duration::from_secs(10), in milliseconds.
JAILER_START_TIMEOUT == 10000
\* sleep(Duration::from_millis(100)) between two readiness probes.
POLL_INTERVAL_MS == 100
\* Durations (ms) a GET /version round trip may take.
ProbeDurations == {0, SlowProbeTicks * POLL_INTERVAL_MS}

\* Option::None of the tracked pid (real pids are >= 1).
None == 0
SHUTOFF == "SHUTOFF"
RUNNING == "RUNNING"

DriveIds == <<"d1", "d2", "d3">>
IfaceIds == <<"eth0", "eth1", "eth2">>
Modes == {"Daemon", "Attached", "Tmux"}

\* Non-2xx statuses the API server answers with.
BadStatuses == {400, 500}
\* Statuses the API server answers with.
Statuses == {200} \cup BadStatuses
\* Outcome of one HTTP round trip: a 2xx status, a non-2xx status,
\* or a transport error (hyper::Error, e.g. socket absent / refused).
HttpOutcomes == {[kind |-> "status", status |-> s] : s \in Statuses}
                \cup {[kind |-> "transport", status |-> 0]}

\* Variant of is_success that takes every answered status for a success.
is_success_any(status) == status >= 200

\* StatusCode::is_success
is_success(status) == status >= 200 /\ status <= 299

\* ------------------------------------------------------------ error values
Ok == [kind |-> "Ok", status |-> 0]
Err(k) == [kind |-> k, status |-> 0]
\* The call has not returned yet.
Pending == [kind |-> "Pending", status |-> 0]
FirecrackerAPIError(s) == [kind |-> "FirecrackerAPIError", status |-> s]

VARIABLES
    cfg,        \* the Machine's Config (immutable after create)
    pid,        \* Machine.pid : Option<u32>
    procs,      \* host process table: pids of the live firecracker processes of this vm_id
    nextPid,    \* next pid the host hands out (pids are not reused)
    fs,         \* existence of the host socket file, the vsock file and workspace/dev
    pc,         \* position of the running operation ("idle" between operations)
    elapsed,    \* ms since wait_for_jailer took `start`
    idx,        \* number of PUTs of the start sequence already answered 2xx
    reqs,       \* PUT requests seen by the API server during the current start, with its answer
    origErr,    \* error `e` held by start while it runs the internal force_shutdown
    result,     \* operation and result of the last call (Pending while a start runs)
    obs,        \* state() observed right after the last returned call
    allOk,      \* every call so far returned Ok
    hist,       \* facts about the current / last start (history)
    trace,      \* what the current / last call did besides the PUTs of start (history)
    vmDir,      \* the VM directory (parent of the workspace `root`) exists
    src,        \* the source files the Config names: initrd and one path per drive
    ws,         \* content of each file of the workspace ("" = absent)
    made,       \* the create calls so far and the workspace at the last one (history)
    bld,        \* a Config builder chain: the Config under construction, then what is read off it
    calls       \* the requests a control client sent, each with its answer and its outcome

\* The directory tree of the VM and what create reads to fill it.
disk == <<vmDir, src, ws, made>>

\* What the operations of a Machine leave alone: the builder chain and the
\* client exercised on its own.
apart == <<bld, calls>>

vars == <<cfg, pid, procs, nextPid, fs, pc, elapsed, idx, reqs, origErr,
          result, obs, allOk, hist, trace, vmDir, src, ws, made, bld, calls>>

\* One entry of trace: what was done, to which pid (None if to none), with which result.
Ev(ev, p, k) == [ev |-> ev, pid |-> p, res |-> k]

\* No builder chain is followed.
NoBuilder == [stage |-> "none"]

\* ------------------------------------------------------------------ state()
\* Variant of state with the two results exchanged.
state_inverted(p, ps) ==
    IF p # None
    THEN IF p \in ps THEN SHUTOFF ELSE RUNNING
    ELSE RUNNING

\* Variant of state that trusts the tracked pid without asking the process table.
state_by_pid(p, ps) == IF p # None THEN RUNNING ELSE SHUTOFF

\* Machine::state: RUNNING iff a pid is tracked and the process table knows it.
state(p, ps) ==
    IF p # None
    THEN IF p \in ps THEN RUNNING ELSE SHUTOFF
    ELSE SHUTOFF

\* -------------------------------------------------------------- Config
Prefix(s, n) == SubSeq(s, 1, n)

Configs ==
    { [mode |-> m, drives |-> Prefix(DriveIds, nd), ifaces |-> Prefix(IfaceIds, ni), vsock |-> v] :
        m \in Modes, nd \in 0..MaxDrives, ni \in 0..MaxIfaces, v \in BOOLEAN }

NoFiles == [sock |-> FALSE, vsock |-> FALSE, dev |-> FALSE]
StaleFiles(c) == [sock |-> TRUE, vsock |-> c.vsock, dev |-> TRUE]

NoHist == [spawned |-> FALSE, probeOk |-> FALSE, fsTried |-> FALSE,
           fsRes |-> "None", retAt |-> "none", early |-> FALSE, cleaned |-> FALSE,
           exited |-> FALSE]

\* ------------------------------------------------------------ source files
\* Source path of the kernel image (Config.src_kernel_image_path).
KernelSrc == "/k/vmlinux"
\* Source paths an initrd may have; "" is Option::None.
InitrdSrcs == {"", "/i/initrd.img"}
\* Source paths a drive may have: two of them share the file name, one has none.
DriveSrcs == {"/x/a.img", "/x/b.img", "/y/a.img", "/x/.."}
\* The drive paths of a Config whose drives all have distinct, valid file names.
PlainDriveSrcs == <<"/x/a.img", "/x/b.img", "/x/c.img">>

\* Path::file_name: the last component, "" (None) for a path ending in `..`.
file_name(path) ==
    CASE path = "/i/initrd.img" -> "initrd.img"
      [] path \in {"/x/a.img", "/y/a.img"} -> "a.img"
      [] path = "/x/b.img" -> "b.img"
      [] path = "/x/c.img" -> "c.img"
      [] OTHER -> ""

\* KERNEL_IMAGE_FILENAME, the file name of the kernel image in the workspace.
KERNEL_IMAGE_FILENAME == "kernel"
\* Names of the files create may put into the workspace.
WsNames == {KERNEL_IMAGE_FILENAME, "initrd.img", "a.img", "b.img", "c.img"}
\* A workspace without files.
EmptyWs == [n \in WsNames |-> ""]
\* A copy that was interrupted leaves a file that is not the source's content.
Partial == "partial"

\* Variant of copy_needed that copies over an existing destination.
copy_needed_always(w, name) == TRUE

\* create, lines 64, 80, 100: `if dest.exists() { skip } else { copy }`.
copy_needed(w, name) == w[name] = ""

\* tokio::fs::copy(from, dest) completed: dest has the content of `from`
\* (a content is named by the path of its source).
copy(w, from, name) == [w EXCEPT ![name] = from]

\* One file of create: copied unless the destination exists.
materialize(w, from, name) == IF copy_needed(w, name) THEN copy(w, from, name) ELSE w

RECURSIVE materialize_drives(_, _, _)
\* create, lines 94-112: the loop over the drives, from drive i on.
materialize_drives(w, ds, i) ==
    IF i > Len(ds) THEN w
    ELSE materialize_drives(materialize(w, ds[i], file_name(ds[i])), ds, i + 1)

\* The workspace files after a create of source files s that met no error.
materialize_all(w, s) ==
    LET k == materialize(w, KernelSrc, KERNEL_IMAGE_FILENAME)
        i == IF s.initrd = "" THEN k ELSE materialize(k, s.initrd, file_name(s.initrd))
    IN materialize_drives(i, s.drives, 1)

\* State after Machine::create returned Ok: pid None, nothing spawned, no request sent.
Init ==
    /\ cfg \in Configs
    /\ pid = None
    /\ procs = {}
    /\ nextPid = 1
    /\ fs \in {NoFiles, StaleFiles(cfg)}
    /\ pc = "idle"
    /\ elapsed = 0
    /\ idx = 0
    /\ reqs = <<>>
    /\ origErr = Ok
    /\ result = [op |-> "create", res |-> Ok]
    /\ obs = state(pid, procs)
    /\ allOk = TRUE
    /\ hist = NoHist
    /\ trace = <<>>
    /\ vmDir = TRUE
    /\ src = [initrd |-> "", drives |-> Prefix(PlainDriveSrcs, Len(cfg.drives))]
    /\ ws = materialize_all(EmptyWs, src)
    /\ made = [calls |-> 1, prevOk |-> FALSE, wsAtCall |-> EmptyWs]
    /\ bld = NoBuilder
    /\ calls = <<>>

\* A call returns `r` from operation `op`, leaving pid p and process table ps.
Return(op, r, p, ps) ==
    /\ pc' = "idle"
    /\ result' = [op |-> op, res |-> r]
    /\ obs' = state(p, ps)
    /\ allOk' = (allOk /\ r = Ok)

\* ------------------------------------------------------------ control client
\* Variant of send_request that does not look at the status of the answer.
send_request_lenient(o) ==
    IF o.kind = "transport" THEN Err("Hyper") ELSE Ok

\* Variant of send_request that turns a transport failure into an io error.
send_request_io(o) ==
    IF o.kind = "transport" THEN Err("Io")
    ELSE IF is_success(o.status) THEN Ok
    ELSE FirecrackerAPIError(o.status)

\* Machine::send_request: 2xx -> Ok; non-2xx -> FirecrackerAPIError{status};
\* a transport failure of client.request propagates as Error::Hyper.
send_request(o) ==
    IF o.kind = "transport" THEN Err("Hyper")
    ELSE IF is_success(o.status) THEN Ok
    ELSE FirecrackerAPIError(o.status)

Req(ep, id) == [ep |-> ep, id |-> id]
\* Indexing an empty slice aborts the task.
Panic == [ep |-> "panic", id |-> ""]

\* ------------------------------------------------- VM configuration sequence
setup_resources(c) == <<Req("machine-config", "")>>

setup_boot_source(c) == <<Req("boot-source", "")>>

\* for drive in &self.config.drives: PUT /drives/<drive_id>
setup_drives(c) == [i \in 1..Len(c.drives) |-> Req("drives", c.drives[i])]

\* Variant of setup_network with one PUT per interface.
setup_network_each(c) ==
    IF Len(c.ifaces) = 0 THEN <<Panic>>
    ELSE [i \in 1..Len(c.ifaces) |-> Req("network-interfaces", c.ifaces[i])]

\* let network = &self.config.network_interfaces()[0]: one PUT for the
\* first interface only; the index panics on an empty list.
setup_network(c) ==
    IF Len(c.ifaces) = 0 THEN <<Panic>>
    ELSE <<Req("network-interfaces", c.ifaces[1])>>

\* PUT /vsock only when a vsock is configured.
setup_vsock(c) == IF c.vsock THEN <<Req("vsock", "")>> ELSE <<>>

\* Machine::setup_vm: the five steps in this order.
setup_vm(c) ==
    setup_resources(c) \o setup_boot_source(c) \o setup_drives(c)
        \o setup_network(c) \o setup_vsock(c)

\* send_action(Action::InstanceStart): PUT /actions.
InstanceStart == Req("actions", "InstanceStart")

\* What start does after the pid is known: setup_vm().and_then(InstanceStart).
start_sequence(c) == setup_vm(c) \o <<InstanceStart>>

\* ------------------------------------------------------- pre-start cleanup
\* fs::remove_file / fs::remove_dir_all on one path: a path that exists is
\* removed or the removal fails with an io error; one that does not exist
\* gives ErrorKind::NotFound.
remove_path(present) == IF present THEN {"Ok", "Io"} ELSE {"NotFound"}

\* Variant of removal_passes that takes NotFound for a failure like any other.
removal_passes_strict(k) == k \in {"Ok", "Skip"}

\* cleanup_before_starting, lines 578-584 (593-599, 604-610): Ok and
\* NotFound go on to the next path, any other error is returned.  "Skip"
\* stands for the vsock removal that is not attempted.
removal_passes(k) == k \in {"Ok", "NotFound", "Skip"}

\* Machine::cleanup_before_starting: remove the host socket file, the vsock
\* file (if configured) and workspace/dev; NotFound is not an error, any
\* other io error aborts at that point and leaves the rest in place.
cleanup_before_starting(c, f) ==
    { IF ~removal_passes(o[1])
      THEN [res |-> Err("Io"), fs |-> f]
      ELSE IF ~removal_passes(o[2])
      THEN [res |-> Err("Io"), fs |-> [f EXCEPT !.sock = FALSE]]
      ELSE IF ~removal_passes(o[3])
      THEN [res |-> Err("Io"),
            fs |-> [sock |-> FALSE, vsock |-> IF c.vsock THEN FALSE ELSE f.vsock, dev |-> f.dev]]
      ELSE [res |-> Ok,
            fs |-> [sock |-> FALSE, vsock |-> IF c.vsock THEN FALSE ELSE f.vsock, dev |-> FALSE]] :
      o \in remove_path(f.sock)
             \X (IF c.vsock THEN remove_path(f.vsock) ELSE {"Skip"})
             \X remove_path(f.dev) }

\* ------------------------------------------------------------ force_shutdown
\* Variant of force_shutdown that does not look at what kill() returned.
force_shutdown_unchecked(p, ps, mode) ==
    IF p = None
    THEN {[res |-> Err("ProcessNotStarted"), pid |-> p, procs |-> ps, signal |-> FALSE, tmux |-> FALSE]}
    ELSE IF mode \in {"Daemon", "Attached"}
    THEN IF p \in ps
         THEN {[res |-> Ok, pid |-> None, procs |-> ps \ {p}, signal |-> TRUE, tmux |-> FALSE],
               [res |-> Ok, pid |-> None, procs |-> ps, signal |-> FALSE, tmux |-> FALSE]}
         ELSE {[res |-> Err("ProcessNotRunning"), pid |-> p, procs |-> ps, signal |-> FALSE, tmux |-> FALSE]}
    ELSE {[res |-> Err("Io"), pid |-> p, procs |-> ps, signal |-> FALSE, tmux |-> FALSE],
          [res |-> Ok, pid |-> None, procs |-> ps \ {p}, signal |-> FALSE, tmux |-> TRUE],
          [res |-> Ok, pid |-> None, procs |-> ps, signal |-> FALSE, tmux |-> TRUE]}

\* Variant of force_shutdown that reads the jailer mode before the pid: in
\* Tmux mode the session is killed also when no pid is tracked.
force_shutdown_mode_first(p, ps, mode) ==
    IF mode = "Tmux"
    THEN {[res |-> Err("Io"), pid |-> p, procs |-> ps, signal |-> FALSE, tmux |-> FALSE],
          [res |-> Ok, pid |-> None, procs |-> ps \ {p}, signal |-> FALSE, tmux |-> TRUE],
          [res |-> Ok, pid |-> None, procs |-> ps, signal |-> FALSE, tmux |-> TRUE]}
    ELSE IF p = None
    THEN {[res |-> Err("ProcessNotStarted"), pid |-> p, procs |-> ps, signal |-> FALSE, tmux |-> FALSE]}
    ELSE IF p \in ps
    THEN {[res |-> Ok, pid |-> None, procs |-> ps \ {p}, signal |-> TRUE, tmux |-> FALSE],
          [res |-> Err("ProcessNotKilled"), pid |-> p, procs |-> ps, signal |-> FALSE, tmux |-> FALSE]}
    ELSE {[res |-> Err("ProcessNotRunning"), pid |-> p, procs |-> ps, signal |-> FALSE, tmux |-> FALSE]}

\* Variant of force_shutdown that forgets the pid of a process the process
\* table does not know.
force_shutdown_forgets(p, ps, mode) ==
    IF p = None
    THEN {[res |-> Err("ProcessNotStarted"), pid |-> p, procs |-> ps, signal |-> FALSE, tmux |-> FALSE]}
    ELSE IF mode \in {"Daemon", "Attached"}
    THEN IF p \in ps
         THEN {[res |-> Ok, pid |-> None, procs |-> ps \ {p}, signal |-> TRUE, tmux |-> FALSE],
               [res |-> Err("ProcessNotKilled"), pid |-> p, procs |-> ps, signal |-> FALSE, tmux |-> FALSE]}
         ELSE {[res |-> Err("ProcessNotRunning"), pid |-> None, procs |-> ps, signal |-> FALSE, tmux |-> FALSE]}
    ELSE {[res |-> Err("Io"), pid |-> p, procs |-> ps, signal |-> FALSE, tmux |-> FALSE],
          [res |-> Ok, pid |-> None, procs |-> ps \ {p}, signal |-> FALSE, tmux |-> TRUE],
          [res |-> Ok, pid |-> None, procs |-> ps, signal |-> FALSE, tmux |-> TRUE]}

\* Machine::force_shutdown as the set of its possible outcomes:
\*   pid None                  -> ProcessNotStarted
\*   Daemon | Attached         -> process unknown: ProcessNotRunning(pid);
\*                                kill() false: ProcessNotKilled(pid);
\*                                kill() true: pid = None, Ok
\*   Tmux                      -> tmux cannot be spawned: Io; otherwise
\*                                pid = None, Ok whatever kill-session did.
\* signal: the KILL signal was delivered to p; tmux: `tmux kill-session` ran.
force_shutdown(p, ps, mode) ==
    IF p = None
    THEN {[res |-> Err("ProcessNotStarted"), pid |-> p, procs |-> ps, signal |-> FALSE, tmux |-> FALSE]}
    ELSE IF mode \in {"Daemon", "Attached"}
    THEN IF p \in ps
         THEN {[res |-> Ok, pid |-> None, procs |-> ps \ {p}, signal |-> TRUE, tmux |-> FALSE],
               [res |-> Err("ProcessNotKilled"), pid |-> p, procs |-> ps, signal |-> FALSE, tmux |-> FALSE]}
         ELSE {[res |-> Err("ProcessNotRunning"), pid |-> p, procs |-> ps, signal |-> FALSE, tmux |-> FALSE]}
    ELSE {[res |-> Err("Io"), pid |-> p, procs |-> ps, signal |-> FALSE, tmux |-> FALSE],
          [res |-> Ok, pid |-> None, procs |-> ps \ {p}, signal |-> FALSE, tmux |-> TRUE],
          [res |-> Ok, pid |-> None, procs |-> ps, signal |-> FALSE, tmux |-> TRUE]}

\* What a force_shutdown call on pid p adds to trace: the signal or the tmux
\* command if there was one, then its return.
fs_events(p, out) ==
    (IF out.signal THEN <<Ev("signal", p, "")>> ELSE <<>>)
    \o (IF out.tmux THEN <<Ev("tmux kill-session", None, "")>> ELSE <<>>)
    \o <<Ev("force_shutdown", p, out.res.kind)>>

\* Variant of rollback_error that lets a failure of the internal
\* force_shutdown replace the original error.
rollback_error_fs(e, fsres) == IF fsres # Ok THEN fsres ELSE e

\* start, lines 258-263: the error of the internal force_shutdown is only
\* logged; the original error e is returned.
rollback_error(e, fsres) == e

\* Variant of discover_pid that takes one of the matches when there are several.
discover_pid_first(ps) ==
    IF ps # {} THEN CHOOSE p \in ps : TRUE ELSE None

\* wait_for_jailer, lines 419-431: the live processes whose executable is
\* exec_file and whose argv contains the vm_id; exactly one match gives the pid.
discover_pid(ps) ==
    IF Cardinality(ps) = 1 THEN CHOOSE p \in ps : TRUE ELSE None

\* ------------------------------------------------------------------- start
\* Variant of StartAlreadyRunning that runs the pre-start cleanup before the
\* state check.
StartAlreadyRunning_cleans ==
    /\ pc = "idle"
    /\ state(pid, procs) = RUNNING
    /\ fs' = [sock |-> FALSE, vsock |-> IF cfg.vsock THEN FALSE ELSE fs.vsock, dev |-> FALSE]
    /\ Return("start", Err("ProcessAlreadyRunning"), pid, procs)
    /\ UNCHANGED <<trace, disk, apart, cfg, pid, procs, nextPid, elapsed, idx, reqs, origErr, hist>>

\* start, lines 160-162: refused while state() is RUNNING.
StartAlreadyRunning ==
    /\ pc = "idle"
    /\ state(pid, procs) = RUNNING
    /\ Return("start", Err("ProcessAlreadyRunning"), pid, procs)
    /\ UNCHANGED <<trace, disk, apart, cfg, pid, procs, nextPid, fs, elapsed, idx, reqs, origErr, hist>>

\* start, line 166: pre-start cleanup; an io error returns before the spawn.
StartCleanup ==
    /\ pc = "idle"
    /\ state(pid, procs) # RUNNING
    /\ nextPid <= MaxStarts
    /\ \E out \in cleanup_before_starting(cfg, fs) :
        /\ fs' = out.fs
        /\ reqs' = <<>>
        /\ trace' = <<>>
        /\ idx' = 0
        /\ elapsed' = 0
        /\ IF out.res = Ok
           THEN /\ pc' = "spawn"
                /\ hist' = [NoHist EXCEPT !.cleaned = TRUE]
                /\ result' = [op |-> "start", res |-> Pending]
                /\ UNCHANGED <<obs, allOk>>
           ELSE /\ hist' = [NoHist EXCEPT !.retAt = "cleanup"]
                /\ Return("start", out.res, pid, procs)
    /\ UNCHANGED <<cfg, pid, procs, nextPid, origErr, disk, apart>>

\* start, line 238: cmd.spawn() fails with an io error.
StartSpawnFail ==
    /\ pc = "spawn"
    /\ hist' = [hist EXCEPT !.retAt = "spawn"]
    /\ Return("start", Err("Io"), pid, procs)
    /\ UNCHANGED <<trace, disk, apart, cfg, pid, procs, nextPid, fs, elapsed, idx, reqs, origErr>>

\* start, line 238: the jailer is spawned; the jailed firecracker process gets
\* a fresh pid, and the jailer creates the socket and dev/ in the workspace.
\* wait_for_jailer then takes its start instant.
StartSpawn ==
    /\ pc = "spawn"
    /\ procs' = procs \cup {nextPid}
    /\ nextPid' = nextPid + 1
    /\ fs' = [fs EXCEPT !.sock = TRUE, !.dev = TRUE]
    /\ hist' = [hist EXCEPT !.spawned = TRUE]
    /\ elapsed' = 0
    /\ pc' = "probe"
    /\ UNCHANGED <<trace, disk, apart, cfg, pid, idx, reqs, origErr, result, obs, allOk>>

\* wait_for_jailer, line 411, `client.request(..).await?`: a transport error
\* of the probe leaves start at once with that error.
ProbeTransportError ==
    /\ pc = "probe"
    /\ \E d \in ProbeDurations :
        hist' = [hist EXCEPT !.retAt = "wait", !.early = (elapsed + d < JAILER_START_TIMEOUT)]
    /\ elapsed' = 0
    /\ Return("start", Err("Hyper"), pid, procs)
    /\ UNCHANGED <<trace, disk, apart, cfg, pid, procs, nextPid, fs, idx, reqs, origErr>>

\* wait_for_jailer, line 411: the request awaits a response without a bound
\* of its own; a server that accepts and never answers keeps start suspended.
ProbeNoAnswer ==
    /\ pc = "probe"
    /\ pc' = "hung"
    /\ UNCHANGED <<trace, disk, apart, cfg, pid, procs, nextPid, fs, elapsed, idx, reqs, origErr,
                   result, obs, allOk, hist>>

\* wait_for_jailer, lines 411-417: an answer that is not a success; sleep
\* 100 ms and probe again while less than 10 s have elapsed, else
\* JailerStartTimedOut.
ProbeNotReady ==
    /\ pc = "probe"
    /\ \E d \in ProbeDurations, s \in Statuses :
        /\ ~is_success(s)
        /\ IF elapsed + d < JAILER_START_TIMEOUT
           THEN /\ elapsed' = elapsed + d + POLL_INTERVAL_MS
                /\ UNCHANGED <<pc, result, obs, allOk, hist>>
           ELSE /\ elapsed' = 0
                /\ hist' = [hist EXCEPT !.retAt = "wait", !.early = FALSE]
                /\ Return("start", Err("JailerStartTimedOut"), pid, procs)
    /\ UNCHANGED <<trace, disk, apart, cfg, pid, procs, nextPid, fs, idx, reqs, origErr>>

\* wait_for_jailer, lines 411-431 and start, line 243: a success answer ends
\* the wait; the pid is discovered and tracked, or start fails with
\* FailedToStart.  hist.probeOk records whether the answer was a 2xx.
ProbeReady ==
    /\ pc = "probe"
    /\ elapsed' = 0
    /\ \E s \in Statuses :
        /\ is_success(s)
        /\ LET p == discover_pid(procs) IN
            IF p # None
            THEN /\ pid' = p
                 /\ pc' = "setup"
                 /\ hist' = [hist EXCEPT !.probeOk = (s \in 200..299)]
                 /\ UNCHANGED <<result, obs, allOk>>
            ELSE /\ pid' = pid
                 /\ hist' = [hist EXCEPT !.probeOk = (s \in 200..299), !.retAt = "discover"]
                 /\ Return("start", Err("FailedToStart"), pid, procs)
    /\ UNCHANGED <<trace, disk, apart, cfg, procs, nextPid, fs, idx, reqs, origErr>>

\* start, lines 245-252: the next PUT of the sequence is sent and answered.
\* 2xx moves on (Ok after InstanceStart); anything else ends the sequence
\* and start goes on to the internal force_shutdown holding the error.
SendPut ==
    /\ pc = "setup"
    /\ idx < Len(start_sequence(cfg))
    /\ start_sequence(cfg)[idx + 1] # Panic
    /\ \E o \in HttpOutcomes :
        LET r == start_sequence(cfg)[idx + 1]
            e == send_request(o) IN
        /\ reqs' = Append(reqs, [ep |-> r.ep, id |-> r.id, kind |-> o.kind, status |-> o.status])
        /\ fs' = IF r.ep = "vsock" /\ e = Ok THEN [fs EXCEPT !.vsock = TRUE] ELSE fs
        /\ IF e = Ok
           THEN /\ idx' = idx + 1
                /\ origErr' = origErr
                /\ IF idx + 1 = Len(start_sequence(cfg))
                   THEN /\ hist' = [hist EXCEPT !.retAt = "ok"]
                        /\ Return("start", Ok, pid, procs)
                   ELSE UNCHANGED <<pc, result, obs, allOk, hist>>
           ELSE /\ idx' = idx
                /\ origErr' = e
                /\ pc' = "rollback"
                /\ UNCHANGED <<result, obs, allOk, hist>>
    /\ UNCHANGED <<trace, disk, apart, cfg, pid, procs, nextPid, elapsed>>

\* setup_network, line 542: `network_interfaces()[0]` on an empty list panics;
\* the task unwinds out of start without reaching the force_shutdown.
SetupPanic ==
    /\ pc = "setup"
    /\ idx < Len(start_sequence(cfg))
    /\ start_sequence(cfg)[idx + 1] = Panic
    /\ pc' = "panicked"
    /\ hist' = [hist EXCEPT !.retAt = "panic"]
    /\ UNCHANGED <<trace, disk, apart, cfg, pid, procs, nextPid, fs, elapsed, idx, reqs, origErr,
                   result, obs, allOk>>

\* start, lines 253-264: the internal force_shutdown, then `return Err(e)`.
StartRollback ==
    /\ pc = "rollback"
    /\ \E out \in force_shutdown(pid, procs, cfg.mode) :
        /\ pid' = out.pid
        /\ procs' = out.procs
        /\ hist' = [hist EXCEPT !.fsTried = TRUE, !.fsRes = out.res.kind, !.retAt = "setup"]
        /\ trace' = trace \o fs_events(pid, out)
        /\ Return("start", rollback_error(origErr, out.res), out.pid, out.procs)
    /\ origErr' = Ok
    /\ UNCHANGED <<cfg, nextPid, fs, elapsed, idx, reqs, disk, apart>>

\* ---------------------------------------------------- shutdown, force_shutdown
\* Machine::send_action(action) as an entry of trace: one PUT /actions with
\* action_type `action`, and the result send_request makes of the answer o.
send_action(action, o) == Ev("PUT /actions " \o action, None, send_request(o).kind)

\* Machine::force_shutdown called by the user.
ForceShutdown ==
    /\ pc = "idle"
    /\ \E out \in force_shutdown(pid, procs, cfg.mode) :
        /\ pid' = out.pid
        /\ procs' = out.procs
        /\ trace' = fs_events(pid, out)
        /\ Return("force_shutdown", out.res, out.pid, out.procs)
    /\ UNCHANGED <<cfg, nextPid, fs, elapsed, idx, reqs, origErr, hist, disk, apart>>

\* Variant of Shutdown that forgets the pid once the guest has accepted the request.
Shutdown_forgets ==
    /\ pc = "idle"
    /\ \E o \in HttpOutcomes :
        /\ trace' = <<send_action("SendCtrlAltDel", o)>>
        /\ pid' = IF send_request(o) = Ok THEN None ELSE pid
        /\ Return("shutdown", send_request(o), pid', procs)
    /\ UNCHANGED <<cfg, procs, nextPid, fs, elapsed, idx, reqs, origErr, hist, disk, apart>>

\* Machine::shutdown: one PUT /actions SendCtrlAltDel; the Machine is not changed.
Shutdown ==
    /\ pc = "idle"
    /\ \E o \in HttpOutcomes :
        /\ trace' = <<send_action("SendCtrlAltDel", o)>>
        /\ Return("shutdown", send_request(o), pid, procs)
    /\ UNCHANGED <<cfg, pid, procs, nextPid, fs, elapsed, idx, reqs, origErr, hist, disk, apart>>

\* -------------------------------------------------------------------- delete
\* Seconds delete sleeps after a shutdown request that succeeded.
DELETE_WAIT_SECS == 10

\* Variant of DeleteShutdown that sleeps whatever the shutdown request returned.
DeleteShutdown_always_waits ==
    /\ pc = "idle"
    /\ state(pid, procs) = RUNNING
    /\ \E o \in HttpOutcomes :
        trace' = <<send_action("SendCtrlAltDel", o)>>
    /\ pc' = "del_wait"
    /\ result' = [op |-> "delete", res |-> Pending]
    /\ UNCHANGED <<cfg, pid, procs, nextPid, fs, elapsed, idx, reqs, origErr,
                   obs, allOk, hist, disk, apart>>

\* delete, lines 338-345: on a RUNNING Machine the shutdown request is sent;
\* its error is only logged; delete goes on to the sleep if it succeeded and
\* straight to force_shutdown if it failed.
DeleteShutdown ==
    /\ pc = "idle"
    /\ state(pid, procs) = RUNNING
    /\ \E o \in HttpOutcomes :
        /\ trace' = <<send_action("SendCtrlAltDel", o)>>
        /\ pc' = IF send_request(o) = Ok THEN "del_wait" ELSE "del_kill"
    /\ result' = [op |-> "delete", res |-> Pending]
    /\ UNCHANGED <<cfg, pid, procs, nextPid, fs, elapsed, idx, reqs, origErr,
                   obs, allOk, hist, disk, apart>>

\* Variant of DeleteNotRunning that attempts the kill whatever the state.
DeleteNotRunning_kills ==
    /\ pc = "idle"
    /\ state(pid, procs) # RUNNING
    /\ trace' = <<>>
    /\ pc' = "del_kill"
    /\ result' = [op |-> "delete", res |-> Pending]
    /\ UNCHANGED <<cfg, pid, procs, nextPid, fs, elapsed, idx, reqs, origErr,
                   obs, allOk, hist, disk, apart>>

\* delete, line 338: on a Machine that is not RUNNING nothing is sent or
\* killed; delete goes to the removal.
DeleteNotRunning ==
    /\ pc = "idle"
    /\ state(pid, procs) # RUNNING
    /\ trace' = <<>>
    /\ pc' = "del_rm"
    /\ result' = [op |-> "delete", res |-> Pending]
    /\ UNCHANGED <<cfg, pid, procs, nextPid, fs, elapsed, idx, reqs, origErr,
                   obs, allOk, hist, disk, apart>>

\* delete, line 343: sleep(Duration::from_secs(10)) has elapsed.
DeleteWait ==
    /\ pc = "del_wait"
    /\ trace' = Append(trace, Ev("sleep", None, ToString(DELETE_WAIT_SECS)))
    /\ pc' = "del_kill"
    /\ UNCHANGED <<cfg, pid, procs, nextPid, fs, elapsed, idx, reqs, origErr,
                   result, obs, allOk, hist, disk, apart>>

\* Variant of DeleteKill that returns the error of force_shutdown.
DeleteKill_propagates ==
    /\ pc = "del_kill"
    /\ \E out \in force_shutdown(pid, procs, cfg.mode) :
        /\ pid' = out.pid
        /\ procs' = out.procs
        /\ trace' = trace \o fs_events(pid, out)
        /\ IF out.res = Ok
           THEN pc' = "del_rm" /\ UNCHANGED <<result, allOk>>
           ELSE /\ pc' = "deleted"
                /\ result' = [op |-> "delete", res |-> out.res]
                /\ allOk' = FALSE
    /\ UNCHANGED <<cfg, nextPid, fs, elapsed, idx, reqs, origErr, obs, hist, disk, apart>>

\* delete, lines 346-348: force_shutdown; its error is only logged.
DeleteKill ==
    /\ pc = "del_kill"
    /\ \E out \in force_shutdown(pid, procs, cfg.mode) :
        /\ pid' = out.pid
        /\ procs' = out.procs
        /\ trace' = trace \o fs_events(pid, out)
    /\ pc' = "del_rm"
    /\ UNCHANGED <<cfg, nextPid, fs, elapsed, idx, reqs, origErr,
                   result, obs, allOk, hist, disk, apart>>

\* delete, lines 355-365: fs::remove_dir_all(vm_dir) removes the VM directory
\* with the workspace, or fails with an io error and leaves it (the Machine
\* is consumed either way).
DeleteRemove ==
    /\ pc = "del_rm"
    /\ \E r \in {Ok, Err("Io")} :
        /\ trace' = Append(trace, Ev("remove_dir_all", None, r.kind))
        /\ result' = [op |-> "delete", res |-> r]
        /\ allOk' = (allOk /\ r = Ok)
        /\ IF r = Ok
           THEN vmDir' = FALSE /\ ws' = EmptyWs /\ fs' = NoFiles
           ELSE UNCHANGED <<vmDir, ws, fs>>
    /\ pc' = "deleted"
    /\ UNCHANGED <<cfg, pid, procs, nextPid, elapsed, idx, reqs, origErr, obs, hist, src, made, apart>>

\* ---------------------------------------------------------------- environment
\* A firecracker process of this VM exits on its own (guest halted, crash).
\* hist.exited records that the process spawned by the running start exited
\* while wait_for_jailer was still probing.
ProcExit ==
    /\ \E p \in procs :
        /\ procs' = procs \ {p}
        /\ hist' = IF pc = "probe" /\ p = nextPid - 1
                   THEN [hist EXCEPT !.exited = TRUE] ELSE hist
    /\ UNCHANGED <<cfg, pid, nextPid, fs, pc, elapsed, idx, reqs, origErr,
                   result, obs, allOk, trace, disk, apart>>

Next ==
    \/ StartAlreadyRunning
    \/ StartCleanup
    \/ StartSpawnFail
    \/ StartSpawn
    \/ ProbeTransportError
    \/ ProbeNoAnswer
    \/ ProbeNotReady
    \/ ProbeReady
    \/ SendPut
    \/ SetupPanic
    \/ StartRollback
    \/ ForceShutdown
    \/ Shutdown
    \/ DeleteShutdown
    \/ DeleteNotRunning
    \/ DeleteWait
    \/ DeleteKill
    \/ DeleteRemove
    \/ ProcExit

Spec == Init /\ [][Next]_vars

TypeOK ==
    /\ cfg \in Configs
    /\ pid \in {None} \cup (1..MaxStarts)
    /\ procs \subseteq 1..MaxStarts
    /\ nextPid \in 1..(MaxStarts + 1)
    /\ pc \in {"idle", "spawn", "probe", "hung", "setup", "rollback", "panicked",
              "del_wait", "del_kill", "del_rm", "deleted"}
    /\ vmDir \in BOOLEAN
    /\ ws \in [WsNames -> {""} \cup {KernelSrc} \cup InitrdSrcs \cup DriveSrcs \cup {"/x/c.img", Partial}]
    /\ obs \in {SHUTOFF, RUNNING}
    /\ idx \in 0..Len(start_sequence(cfg))

\* =================================================================== create
\* Largest number of create calls in one run.
MaxCreates == 2

\* The Configs create is run on: what it reads are the drives and the source
\* paths; the jailer mode, the interfaces and the vsock play no part in it.
CreateConfigs == {c \in Configs : c.mode = "Daemon" /\ Len(c.ifaces) = 1 /\ ~c.vsock}

\* Before the first create: no Machine, no VM directory, nothing running.
InitCreate ==
    /\ cfg \in CreateConfigs
    /\ src \in [initrd : InitrdSrcs, drives : [1..Len(cfg.drives) -> DriveSrcs]]
    /\ pid = None
    /\ procs = {}
    /\ nextPid = 1
    /\ fs = NoFiles
    /\ pc = "nomachine"
    /\ elapsed = 0
    /\ idx = 0
    /\ reqs = <<>>
    /\ origErr = Ok
    /\ result = [op |-> "none", res |-> Ok]
    /\ obs = SHUTOFF
    /\ allOk = TRUE
    /\ hist = NoHist
    /\ trace = <<>>
    /\ vmDir = FALSE
    /\ ws = EmptyWs
    /\ made = [calls |-> 0, prevOk |-> FALSE, wsAtCall |-> EmptyWs]
    /\ bld = NoBuilder
    /\ calls = <<>>

\* What no step of create touches.
createFrame == <<cfg, src, procs, nextPid, fs, elapsed, reqs, origErr, hist, apart>>

\* create returns the error e: no Machine is built.
CreateFails(e) ==
    /\ pc' = "nomachine"
    /\ result' = [op |-> "create", res |-> e]
    /\ allOk' = FALSE
    /\ UNCHANGED <<pid, obs, idx>>

\* The future of create is dropped while it is suspended: no Machine is built.
CreateDropped ==
    /\ pc' = "nomachine"
    /\ result' = [op |-> "create", res |-> Err("Cancelled")]
    /\ UNCHANGED <<pid, obs, idx, allOk>>

\* Ways a tokio::fs::copy may end: completed, failed with an io error, or
\* dropped with the future of create.
CopyOutcomes == {"done", "failed", "dropped"}
\* What a copy that did not complete may leave at its destination.
Leftovers == {"", Partial}

\* create, lines 64-78 (80-92, 100-111): one file of the workspace.  An
\* existing destination is skipped; otherwise the source is copied, and a
\* copy that fails returns its io error.  `next` is the position after it.
CopyStep(from, name, next, nextIdx) ==
    IF ~copy_needed(ws, name)
    THEN /\ pc' = next
         /\ idx' = nextIdx
         /\ UNCHANGED <<ws, trace, pid, result, obs, allOk>>
    ELSE \E o \in CopyOutcomes :
         /\ trace' = Append(trace, Ev("copy", None, name))
         /\ IF o = "done"
            THEN /\ ws' = copy(ws, from, name)
                 /\ pc' = next
                 /\ idx' = nextIdx
                 /\ UNCHANGED <<pid, result, obs, allOk>>
            ELSE /\ \E l \in Leftovers : ws' = [ws EXCEPT ![name] = l]
                 /\ IF o = "failed" THEN CreateFails(Err("Io")) ELSE CreateDropped

\* A caller invokes Machine::create(config).
CreateCall ==
    /\ pc \in {"nomachine", "idle"}
    /\ made.calls < MaxCreates
    /\ made' = [calls |-> made.calls + 1,
                prevOk |-> (pc = "idle" /\ result = [op |-> "create", res |-> Ok]),
                wsAtCall |-> ws]
    /\ pc' = "c_mkdir"
    /\ idx' = 0
    /\ trace' = <<>>
    /\ result' = [op |-> "create", res |-> Pending]
    /\ UNCHANGED <<createFrame, pid, obs, allOk, vmDir, ws>>

\* create, lines 59-62: DirBuilder::new().recursive(true).create(workspace).
CreateWorkspaceDir ==
    /\ pc = "c_mkdir"
    /\ trace' = Append(trace, Ev("mkdir", None, "root"))
    /\ \/ /\ vmDir' = TRUE
          /\ pc' = "c_kernel"
          /\ UNCHANGED <<pid, result, obs, allOk, idx>>
       \/ /\ vmDir' = vmDir
          /\ CreateFails(Err("Io"))
    /\ UNCHANGED <<createFrame, ws, made>>

\* create, lines 64-78: the kernel image.
CreateKernel ==
    /\ pc = "c_kernel"
    /\ CopyStep(KernelSrc, KERNEL_IMAGE_FILENAME, "c_initrd", 0)
    /\ UNCHANGED <<createFrame, vmDir, made>>

\* create, lines 80-92: the initrd, when the Config has one.
CreateInitrd ==
    /\ pc = "c_initrd"
    /\ IF src.initrd = ""
       THEN /\ pc' = "c_drives"
            /\ UNCHANGED <<ws, trace, pid, result, obs, allOk, idx>>
       ELSE CopyStep(src.initrd, file_name(src.initrd), "c_drives", 0)
    /\ UNCHANGED <<createFrame, vmDir, made>>

\* create, lines 94-112: the next drive of the loop; a source path without
\* a file name is InvalidDrivePath.
CreateDrive ==
    /\ pc = "c_drives"
    /\ idx < Len(src.drives)
    /\ LET d == src.drives[idx + 1] IN
        IF file_name(d) = ""
        THEN /\ CreateFails(Err("InvalidDrivePath"))
             /\ UNCHANGED <<ws, trace>>
        ELSE CopyStep(d, file_name(d), "c_drives", idx + 1)
    /\ UNCHANGED <<createFrame, vmDir, made>>

\* Variant of new_machine_pid that records a pid, as connect does.
new_machine_pid_connect == nextPid

\* create, lines 130-134: the Machine is built with `pid: None`.
new_machine_pid == None

\* create, lines 116-136: after the loop the socket directory is ensured
\* and the Machine is returned.
CreateSocketDir ==
    /\ pc = "c_drives"
    /\ idx = Len(src.drives)
    /\ trace' = Append(trace, Ev("mkdir", None, "root/run"))
    /\ \/ /\ pid' = new_machine_pid
          /\ idx' = 0
          /\ Return("create", Ok, pid', procs)
       \/ CreateFails(Err("Io"))
    /\ UNCHANGED <<createFrame, vmDir, ws, made>>

\* The caller drops the future of create at one of its other await points.
CreateCancel ==
    /\ pc = "c_mkdir" \/ (pc = "c_drives" /\ idx = Len(src.drives))
    /\ CreateDropped
    /\ UNCHANGED <<createFrame, vmDir, ws, made, trace>>

NextCreate ==
    \/ CreateCall
    \/ CreateWorkspaceDir
    \/ CreateKernel
    \/ CreateInitrd
    \/ CreateDrive
    \/ CreateSocketDir
    \/ CreateCancel

SpecCreate == InitCreate /\ [][NextCreate]_vars

\* =================================================================== Config
\* Option<T>: None is the empty sequence, Some(x) the sequence of x alone.
NoneOpt == <<>>
Some(x) == <<x>>

\* A path: whether it starts at the root, and its components.
Path(abs, comps) == [abs |-> abs, comps |-> comps]

\* Path::join: an absolute argument replaces the path, a relative one is appended.
path_join(a, b) == IF b.abs THEN b ELSE Path(a.abs, a.comps \o b.comps)

\* Path::file_name: the last component, None for no component or `..`.
path_file_name(p) ==
    IF p.comps = <<>> \/ p.comps[Len(p.comps)] = ".." THEN NoneOpt
    ELSE Some(p.comps[Len(p.comps)])

\* path.strip_prefix("/").unwrap_or(path): the leading root is dropped.
strip_root(p) == IF p.abs THEN Path(FALSE, p.comps) ELSE p

\* A file name as a relative path.
Name(n) == Path(FALSE, <<n>>)
\* Path::new("/")
RootDir == Path(TRUE, <<>>)

RECURSIVE join_comps(_)
join_comps(cs) ==
    IF cs = <<>> THEN ""
    ELSE IF Len(cs) = 1 THEN cs[1]
    ELSE cs[1] \o "/" \o join_comps(Tail(cs))
\* Path::to_str: the path as the text the command line gets.
to_str(p) == (IF p.abs THEN "/" ELSE "") \o join_comps(p.comps)

\* ------------------------------------------------------------ builder inputs
\* Uuids a VM may be given (Uuid::new_v4 or Builder::vm_id).
VmIds == {"6f1c", "b2d0"}
\* Socket paths: the default, another absolute one, a relative one.
SocketPaths == {Path(TRUE, <<"run", "firecracker.socket">>),
                Path(TRUE, <<"firecracker.socket">>),
                Path(FALSE, <<"api.sock">>)}
\* Initrd sources: none, one with a file name, one without.
InitrdPaths == {NoneOpt, Some(Path(TRUE, <<"tmp", "initrd.img">>)), Some(Path(TRUE, <<"tmp", "..">>))}
KernelArgs == {NoneOpt, Some("console=ttyS0")}
\* Firecracker binaries: the default, and a path without a file name.
ExecFiles == {Path(TRUE, <<"usr", "bin", "firecracker">>), Path(TRUE, <<"opt", "..">>)}
ChrootBaseDirs == {Path(TRUE, <<"srv", "jailer">>), Path(FALSE, <<"chroot">>)}
\* Stdio of JailerMode::Attached: per stream, the caller's handle or None.
\* std::process::Stdio is not Clone: a handle is in one place at a time.
NoStdio == [stdin |-> NoneOpt, stdout |-> NoneOpt, stderr |-> NoneOpt]
Stdios == {NoStdio,
           [stdin |-> NoneOpt, stdout |-> Some("caller's stdout"), stderr |-> NoneOpt],
           [stdin |-> Some("caller's stdin"), stdout |-> Some("caller's stdout"),
            stderr |-> Some("caller's stderr")]}
\* JailerMode: Daemon, Attached(stdio), Tmux(None), Tmux(Some(name)); the
\* modes other than Attached carry no stdio.
JailerModes == {[mode |-> "Daemon", session |-> NoneOpt, stdio |-> NoStdio],
                [mode |-> "Tmux", session |-> NoneOpt, stdio |-> NoStdio],
                [mode |-> "Tmux", session |-> Some("vmsession"), stdio |-> NoStdio]}
               \cup {[mode |-> "Attached", session |-> NoneOpt, stdio |-> s] : s \in Stdios}
\* users::get_effective_uid() / get_effective_gid(), as the command line shows them.
EffectiveUid == "1000"
EffectiveGid == "100"
\* JailerBuilder::new: jailer_binary defaults to "jailer".
JailerBinary == Name("jailer")

\* chroot_base_dir / exec_file_base / vm_id / "root"
workspace_of(chroot, base, id) ==
    path_join(path_join(path_join(chroot, Name(base)), Name(id)), Name("root"))

\* Config::builder(src_kernel_image_path): the defaults, with a random vm_id.
new_builder(id) ==
    [stage |-> "building",
     vm_id |-> id,
     socket_path |-> Path(TRUE, <<"run", "firecracker.socket">>),
     src_initrd_path |-> NoneOpt,
     kernel_args |-> NoneOpt,
     roots |-> <<>>,
     jailer_cfg |-> NoneOpt,
     jailer_workspace_dir |-> Path(TRUE, <<"srv", "jailer", "firecracker", "root">>),
     res |-> "none",
     out |-> NoneOpt,
     launches |-> <<>>]

\* ----------------------------------------------------- reading a built Config
\* Variant of host_socket_path that joins the socket path as it was given.
host_socket_path_unstripped(b) == path_join(b.jailer_workspace_dir, b.socket_path)

\* Config::host_socket_path
host_socket_path(b) == path_join(b.jailer_workspace_dir, strip_root(b.socket_path))

\* Config::kernel_image_path
kernel_image_path(b) == path_join(b.jailer_workspace_dir, Name(KERNEL_IMAGE_FILENAME))

\* Config::initrd_path: Result<Option<PathBuf>, Error>
initrd_path(b) ==
    IF b.src_initrd_path = NoneOpt THEN [res |-> "Ok", val |-> NoneOpt]
    ELSE LET n == path_file_name(b.src_initrd_path[1]) IN
         IF n = NoneOpt THEN [res |-> "InvalidInitrdPath", val |-> NoneOpt]
         ELSE [res |-> "Ok", val |-> Some(path_join(b.jailer_workspace_dir, Name(n[1])))]

\* Variant of boot_source that gives the paths on the host.
boot_source_on_host(b) ==
    IF initrd_path(b).res # "Ok"
    THEN [res |-> "InvalidInitrdPath", kernel_image_path |-> RootDir,
          initrd_path |-> NoneOpt, boot_args |-> NoneOpt]
    ELSE [res |-> "Ok", kernel_image_path |-> kernel_image_path(b),
          initrd_path |-> initrd_path(b).val, boot_args |-> b.kernel_args]

\* Config::boot_source: Result<BootSource, Error>
boot_source(b) ==
    LET n == IF b.src_initrd_path = NoneOpt THEN NoneOpt
             ELSE path_file_name(b.src_initrd_path[1]) IN
    IF b.src_initrd_path # NoneOpt /\ n = NoneOpt
    THEN [res |-> "InvalidInitrdPath", kernel_image_path |-> RootDir,
          initrd_path |-> NoneOpt, boot_args |-> NoneOpt]
    ELSE [res |-> "Ok",
          kernel_image_path |-> path_join(RootDir, Name(KERNEL_IMAGE_FILENAME)),
          initrd_path |-> IF n = NoneOpt THEN NoneOpt ELSE Some(path_join(RootDir, Name(n[1]))),
          boot_args |-> b.kernel_args]

\* Variant of jailer_argv that hands firecracker the socket path on the host.
jailer_argv_host_socket(b) ==
    LET j == b.jailer_cfg[1] IN
    (IF j.mode.mode = "Tmux"
     THEN <<"tmux", "new-session", "-d", "-s",
            IF j.mode.session = NoneOpt THEN b.vm_id ELSE j.mode.session[1],
            to_str(j.jailer_binary)>>
     ELSE <<to_str(j.jailer_binary)>>)
    \o (IF j.mode.mode = "Daemon" THEN <<"--daemonize">> ELSE <<>>)
    \o <<"--id", b.vm_id,
         "--exec-file", to_str(j.exec_file),
         "--uid", j.uid,
         "--gid", j.gid,
         "--chroot-base-dir", to_str(j.chroot_base_dir),
         "--",
         "--api-sock", to_str(host_socket_path(b))>>

\* start, lines 169-234: the program and the arguments of the command.
jailer_argv(b) ==
    LET j == b.jailer_cfg[1] IN
    (IF j.mode.mode = "Tmux"
     THEN <<"tmux", "new-session", "-d", "-s",
            IF j.mode.session = NoneOpt THEN b.vm_id ELSE j.mode.session[1],
            to_str(j.jailer_binary)>>
     ELSE <<to_str(j.jailer_binary)>>)
    \o (IF j.mode.mode = "Daemon" THEN <<"--daemonize">> ELSE <<>>)
    \o <<"--id", b.vm_id,
         "--exec-file", to_str(j.exec_file),
         "--uid", j.uid,
         "--gid", j.gid,
         "--chroot-base-dir", to_str(j.chroot_base_dir),
         "--",
         "--api-sock", to_str(b.socket_path)>>

\* Option::take on the three streams: what is left in the Config.
take(stdio) == NoStdio

\* start, lines 176-205: the stdio of the command.  Attached takes each
\* handle out of the Config, or inherits where there is none; Daemon and
\* Tmux use the null device.
command_stdio(m) ==
    IF m.mode = "Attached"
    THEN [stdin |-> IF m.stdio.stdin = NoneOpt THEN "inherit" ELSE m.stdio.stdin[1],
          stdout |-> IF m.stdio.stdout = NoneOpt THEN "inherit" ELSE m.stdio.stdout[1],
          stderr |-> IF m.stdio.stderr = NoneOpt THEN "inherit" ELSE m.stdio.stderr[1]]
    ELSE [stdin |-> "null", stdout |-> "null", stderr |-> "null"]

\* Variant of kill_session_argv that always names the session after the VM id.
kill_session_argv_vm_id(b) == <<"tmux", "kill-session", "-t", b.vm_id>>

\* force_shutdown, lines 301-308: the command that ends a Tmux session.
kill_session_argv(b) ==
    LET j == b.jailer_cfg[1] IN
    <<"tmux", "kill-session", "-t",
      IF j.mode.session = NoneOpt THEN b.vm_id ELSE j.mode.session[1]>>

\* ------------------------------------------------------------ builder chain
\* A caller begins a chain with Config::builder(..).
InitConfig ==
    /\ cfg \in {c \in CreateConfigs : c.drives = <<>>}
    /\ src = [initrd |-> "", drives |-> <<>>]
    /\ pid = None
    /\ procs = {}
    /\ nextPid = 1
    /\ fs = NoFiles
    /\ pc = "nomachine"
    /\ elapsed = 0
    /\ idx = 0
    /\ reqs = <<>>
    /\ origErr = Ok
    /\ result = [op |-> "none", res |-> Ok]
    /\ obs = SHUTOFF
    /\ allOk = TRUE
    /\ hist = NoHist
    /\ trace = <<>>
    /\ vmDir = FALSE
    /\ ws = EmptyWs
    /\ made = [calls |-> 0, prevOk |-> FALSE, wsAtCall |-> EmptyWs]
    /\ bld \in {new_builder(id) : id \in VmIds}
    /\ calls = <<>>

\* What no step of a builder chain touches.
machineVars == <<cfg, pid, procs, nextPid, fs, pc, elapsed, idx, reqs, origErr,
                 result, obs, allOk, hist, trace, disk, calls>>

\* Builder::vm_id
BuilderVmId ==
    /\ bld.stage = "building"
    /\ \E id \in VmIds : bld' = [bld EXCEPT !.vm_id = id]
    /\ UNCHANGED machineVars

\* Builder::socket_path
BuilderSocketPath ==
    /\ bld.stage = "building"
    /\ \E p \in SocketPaths : bld' = [bld EXCEPT !.socket_path = p]
    /\ UNCHANGED machineVars

\* Builder::initrd_path
BuilderInitrdPath ==
    /\ bld.stage = "building"
    /\ \E o \in InitrdPaths : bld' = [bld EXCEPT !.src_initrd_path = o]
    /\ UNCHANGED machineVars

\* Builder::kernel_args
BuilderKernelArgs ==
    /\ bld.stage = "building"
    /\ \E o \in KernelArgs : bld' = [bld EXCEPT !.kernel_args = o]
    /\ UNCHANGED machineVars

\* Builder::add_drive(..).is_root_device(r).build(): the drive is pushed.
BuilderAddDrive ==
    /\ bld.stage = "building"
    /\ Len(bld.roots) < MaxDrives
    /\ \E r \in BOOLEAN : bld' = [bld EXCEPT !.roots = Append(@, r)]
    /\ UNCHANGED machineVars

\* Builder::jailer_cfg()...build(): JailerBuilder::build takes the file name
\* of exec_file with `.expect(..)` and computes workspace_dir from the vm_id
\* the builder has at this moment.
BuilderJailer ==
    /\ bld.stage = "building"
    /\ \E e \in ExecFiles, c \in ChrootBaseDirs, m \in JailerModes :
        LET n == path_file_name(e) IN
        IF n = NoneOpt
        THEN bld' = [bld EXCEPT !.stage = "panicked", !.res = "invalid jailer exec file path"]
        ELSE bld' = [bld EXCEPT !.jailer_cfg =
                        Some([exec_file |-> e, chroot_base_dir |-> c, mode |-> m,
                              uid |-> EffectiveUid, gid |-> EffectiveGid,
                              jailer_binary |-> JailerBinary,
                              workspace_dir |-> workspace_of(c, n[1], bld.vm_id)])]
    /\ UNCHANGED machineVars

\* Builder::build: `expect("no jailer config")`, then the file name of
\* exec_file or InvalidJailerExecPath, then jailer_workspace_dir.
BuilderBuild ==
    /\ bld.stage = "building"
    /\ IF bld.jailer_cfg = NoneOpt
       THEN bld' = [bld EXCEPT !.stage = "panicked", !.res = "no jailer config"]
       ELSE LET j == bld.jailer_cfg[1]
                n == path_file_name(j.exec_file) IN
            IF n = NoneOpt
            THEN bld' = [bld EXCEPT !.stage = "failed", !.res = "InvalidJailerExecPath"]
            ELSE bld' = [bld EXCEPT !.stage = "built", !.res = "Ok",
                            !.jailer_workspace_dir = workspace_of(j.chroot_base_dir, n[1], bld.vm_id)]
    /\ UNCHANGED machineVars

\* The built Config is read: the paths create and start use, the boot source
\* of setup_boot_source and the command line of start.
ConfigRead ==
    /\ bld.stage = "built"
    /\ bld' = [bld EXCEPT !.stage = "read",
                  !.out = Some([host_socket_path |-> host_socket_path(bld),
                                kernel_image_path |-> kernel_image_path(bld),
                                initrd_path |-> initrd_path(bld),
                                boot_source |-> boot_source(bld),
                                argv |-> jailer_argv(bld)])]
    /\ UNCHANGED machineVars

\* start, lines 169-238, on the Config of the Machine: the command is built
\* and spawned; in Attached mode the handles of the Config move into it.
StartCommand ==
    /\ bld.stage = "read"
    /\ Len(bld.launches) < MaxStarts
    /\ LET j == bld.jailer_cfg[1] IN
       bld' = [bld EXCEPT
                 !.launches = Append(@, [argv |-> jailer_argv(bld),
                                         stdio |-> command_stdio(j.mode),
                                         configured |-> j.mode.stdio]),
                 !.jailer_cfg = Some([j EXCEPT !.mode.stdio =
                                        IF j.mode.mode = "Attached" THEN take(@) ELSE @])]
    /\ UNCHANGED machineVars

NextConfig ==
    \/ StartCommand
    \/ BuilderVmId
    \/ BuilderSocketPath
    \/ BuilderInitrdPath
    \/ BuilderKernelArgs
    \/ BuilderAddDrive
    \/ BuilderJailer
    \/ BuilderBuild
    \/ ConfigRead

SpecConfig == InitConfig /\ [][NextConfig]_vars

\* ============================================================ control client
\* Requests one run of the client model makes.
MaxRequests == 2

\* Response bodies as bytes: empty, text, and text with a byte that is not UTF-8.
Bodies == {<<>>, <<"f", "a", "u", "l", "t">>, <<"n", "o", "0xFF">>}

\* String::from_utf8_lossy: a byte that is not UTF-8 becomes U+FFFD.
from_utf8_lossy(bytes) ==
    [i \in 1..Len(bytes) |-> IF bytes[i] = "0xFF" THEN "U+FFFD" ELSE bytes[i]]

\* Variant of response_body that keeps an empty body as Some("").
response_body_always(bytes) == Some(from_utf8_lossy(bytes))

\* send_request, lines 452-459: the body of the error, None when empty.
response_body(bytes) ==
    IF bytes = <<>> THEN NoneOpt ELSE Some(from_utf8_lossy(bytes))

\* Machine::send_request with the body of the response: `to_bytes(..).await?`
\* is reached on a non-2xx status only, and its failure is an Error::Hyper.
send_request_body(o, bytes, readable) ==
    IF send_request(o).kind # "FirecrackerAPIError"
    THEN [res |-> send_request(o), body |-> NoneOpt]
    ELSE IF ~readable THEN [res |-> Err("Hyper"), body |-> NoneOpt]
    ELSE [res |-> send_request(o), body |-> response_body(bytes)]

\* A Machine whose client has sent nothing yet.
InitClient ==
    /\ cfg \in {c \in CreateConfigs : c.drives = <<>>}
    /\ src = [initrd |-> "", drives |-> <<>>]
    /\ pid = None
    /\ procs = {}
    /\ nextPid = 1
    /\ fs = NoFiles
    /\ pc = "client"
    /\ elapsed = 0
    /\ idx = 0
    /\ reqs = <<>>
    /\ origErr = Ok
    /\ result = [op |-> "none", res |-> Ok]
    /\ obs = SHUTOFF
    /\ allOk = TRUE
    /\ hist = NoHist
    /\ trace = <<>>
    /\ vmDir = TRUE
    /\ ws = EmptyWs
    /\ made = [calls |-> 0, prevOk |-> FALSE, wsAtCall |-> EmptyWs]
    /\ bld = NoBuilder
    /\ calls = <<>>

\* One call of send_request, from the request to its return.
ClientRequest ==
    /\ pc = "client"
    /\ Len(calls) < MaxRequests
    /\ \E o \in HttpOutcomes, bytes \in Bodies, readable \in BOOLEAN :
        calls' = Append(calls, [o |-> o, bytes |-> bytes, readable |-> readable,
                                ret |-> send_request_body(o, bytes, readable)])
    /\ UNCHANGED <<cfg, pid, procs, nextPid, fs, pc, elapsed, idx, reqs, origErr,
                   result, obs, allOk, hist, trace, disk, bld>>

NextClient == ClientRequest

SpecClient == InitClient /\ [][NextClient]_vars

\* ===================================================== requests of start
\* The REST sequence of start at the grain of one request: the request is
\* written to the socket (`client.request(..)`), and some time later its
\* response arrives and `.await` returns.  `calls` is the log of requests.

\* The drive the Config holds at position i: the first one added is the root
\* device with a partition uuid, the second one is read-only.
drive_at(c, s, i) ==
    [drive_id |-> c.drives[i],
     is_read_only |-> (i = 2),
     is_root_device |-> (i = 1),
     part_uuid |-> IF i = 1 THEN Some("part-" \o c.drives[i]) ELSE NoneOpt,
     src_path |-> s.drives[i]]

\* The interface of the Config whose name in the VM is v.
interface_of(v) == [host_if_name |-> "tap-" \o v, vm_if_name |-> v, vm_mac_address |-> NoneOpt]

\* Variant of drive_payload that sends the source path as it is.
drive_payload_src_path(d) ==
    [drive_id |-> d.drive_id, is_read_only |-> d.is_read_only,
     is_root_device |-> d.is_root_device, part_uuid |-> d.part_uuid,
     path_on_host |-> d.src_path]

\* setup_drives, lines 523-529: a clone of the drive whose src_path is the
\* file name of the source, serialized with src_path as `path_on_host`.
drive_payload(d) ==
    [drive_id |-> d.drive_id, is_read_only |-> d.is_read_only,
     is_root_device |-> d.is_root_device, part_uuid |-> d.part_uuid,
     path_on_host |-> file_name(d.src_path)]

\* setup_network, lines 543-546: the two fields of the interface.
network_payload(n) == [iface_id |-> n.vm_if_name, host_dev_name |-> n.host_if_name]

\* A body the model does not look into.
OtherPayload == [json |-> "not detailed"]

\* The position in the Config of the drive of id `id`.
drive_index(c, id) == CHOOSE i \in 1..Len(c.drives) : c.drives[i] = id

\* The body of request r of the sequence.
request_body(c, s, r) ==
    IF r.ep = "drives" THEN drive_payload(drive_at(c, s, drive_index(c, r.id)))
    ELSE IF r.ep = "network-interfaces" THEN network_payload(interface_of(r.id))
    ELSE OtherPayload

\* The drive of request r has a source path without a file name.
invalid_drive(c, s, r) ==
    r.ep = "drives" /\ file_name(s.drives[drive_index(c, r.id)]) = ""

\* Every drive source of s has a file name.
valid_sources(s) == \A i \in 1..Len(s.drives) : file_name(s.drives[i]) # ""

\* The jailer answers the API socket: start is about to call setup_vm.  The
\* workspace is as create left it; a Config that create refuses
\* (InvalidDrivePath) belongs to a Machine made by connect.
InitSerial ==
    /\ cfg \in Configs
    /\ src \in [initrd : {""}, drives : [1..Len(cfg.drives) -> DriveSrcs]]
    /\ pid = 1
    /\ procs = {1}
    /\ nextPid = 2
    /\ fs = [sock |-> TRUE, vsock |-> FALSE, dev |-> TRUE]
    /\ pc = "setup"
    /\ elapsed = 0
    /\ idx = 0
    /\ reqs = <<>>
    /\ origErr = Ok
    /\ result = [op |-> "start", res |-> Pending]
    /\ obs = SHUTOFF
    /\ allOk = TRUE
    /\ hist = [NoHist EXCEPT !.spawned = TRUE, !.probeOk = TRUE, !.cleaned = TRUE]
    /\ trace = <<>>
    /\ vmDir = TRUE
    /\ ws = IF valid_sources(src) THEN materialize_all(EmptyWs, src) ELSE EmptyWs
    /\ made = [calls |-> 1, prevOk |-> FALSE, wsAtCall |-> EmptyWs]
    /\ bld = NoBuilder
    /\ calls = <<>>

\* Requests of the log whose response has not arrived.
in_flight(cs) == {i \in 1..Len(cs) : ~cs[i].answered}

\* Variant of may_send that does not wait for the response of the previous request.
may_send_eagerly(cs) == TRUE

\* setup_vm, lines 480-484, and start, lines 245-252: each request is awaited
\* before the next statement runs.
may_send(cs) == in_flight(cs) = {}

\* send_request, line 446, `self.client.request(request)`: the next request of
\* the sequence goes out.
SerialSend ==
    /\ pc = "setup"
    /\ may_send(calls)
    /\ Len(calls) < Len(start_sequence(cfg))
    /\ start_sequence(cfg)[Len(calls) + 1] # Panic
    /\ ~invalid_drive(cfg, src, start_sequence(cfg)[Len(calls) + 1])
    /\ LET r == start_sequence(cfg)[Len(calls) + 1] IN
       calls' = Append(calls, [ep |-> r.ep, id |-> r.id, answered |-> FALSE, ret |-> Pending,
                               body |-> request_body(cfg, src, r)])
    /\ UNCHANGED <<cfg, pid, procs, nextPid, fs, pc, elapsed, idx, reqs, origErr,
                   result, obs, allOk, hist, trace, disk, bld>>

\* setup_drives, lines 524-527: the source path of the next drive has no file
\* name; the sequence ends with InvalidDrivePath before the request is made.
SerialInvalidDrive ==
    /\ pc = "setup"
    /\ may_send(calls)
    /\ Len(calls) < Len(start_sequence(cfg))
    /\ invalid_drive(cfg, src, start_sequence(cfg)[Len(calls) + 1])
    /\ origErr' = Err("InvalidDrivePath")
    /\ pc' = "rollback"
    /\ UNCHANGED <<cfg, pid, procs, nextPid, fs, elapsed, idx, reqs, result, obs, allOk,
                   hist, trace, disk, apart>>

\* send_request, lines 446-464, `.await?` returns: the response of the oldest
\* request in flight arrives (or its transport fails).  A 2xx lets the
\* sequence go on; anything else ends it, and start turns to force_shutdown.
SerialReceive ==
    /\ pc = "setup"
    /\ in_flight(calls) # {}
    /\ \E o \in HttpOutcomes :
        LET i == CHOOSE k \in in_flight(calls) : \A m \in in_flight(calls) : k <= m
            e == send_request(o) IN
        /\ calls' = [calls EXCEPT ![i] = [@ EXCEPT !.answered = TRUE, !.ret = e]]
        /\ idx' = IF e = Ok THEN idx + 1 ELSE idx
        /\ origErr' = IF e = Ok THEN origErr ELSE e
        /\ pc' = IF e # Ok THEN "rollback"
                 ELSE IF idx + 1 = Len(start_sequence(cfg)) THEN "idle" ELSE "setup"
        /\ result' = IF e = Ok /\ idx + 1 = Len(start_sequence(cfg))
                     THEN [op |-> "start", res |-> Ok] ELSE result
    /\ UNCHANGED <<cfg, pid, procs, nextPid, fs, elapsed, reqs, obs, allOk, hist,
                   trace, disk, bld>>

NextSerial ==
    \/ SerialSend
    \/ SerialInvalidDrive
    \/ SerialReceive

SpecSerial == InitSerial /\ [][NextSerial]_vars

\* ================================================================== connect
\* The Config of the default jailer in mode m, as a builder chain builds it.
built_config(id, m) ==
    LET e == Path(TRUE, <<"usr", "bin", "firecracker">>)
        c == Path(TRUE, <<"srv", "jailer">>) IN
    [new_builder(id) EXCEPT
        !.stage = "built",
        !.res = "Ok",
        !.jailer_cfg = Some([exec_file |-> e, chroot_base_dir |-> c, mode |-> m,
                             uid |-> EffectiveUid, gid |-> EffectiveGid,
                             jailer_binary |-> JailerBinary,
                             workspace_dir |-> workspace_of(c, "firecracker", id)]),
        !.jailer_workspace_dir = workspace_of(c, "firecracker", id)]

\* Pids a caller may hand to connect.
ConnectPids == {None, 1}

\* A host on which the VM of the Config was created, and started or not, by
\* an earlier program: at most one process of the VM, files it may have left.
InitConnect ==
    /\ cfg \in Configs
    /\ bld \in {built_config(id, m) : id \in VmIds, m \in {x \in JailerModes : x.mode = cfg.mode}}
    /\ src = [initrd |-> "", drives |-> Prefix(PlainDriveSrcs, Len(cfg.drives))]
    /\ pid = None
    /\ procs \in {{}, {1}}
    /\ nextPid = 2
    /\ fs \in {NoFiles, StaleFiles(cfg)}
    /\ pc = "nomachine"
    /\ elapsed = 0
    /\ idx = 0
    /\ reqs = <<>>
    /\ origErr = Ok
    /\ result = [op |-> "none", res |-> Ok]
    /\ obs = SHUTOFF
    /\ allOk = TRUE
    /\ hist = NoHist
    /\ trace = <<>>
    /\ vmDir = TRUE
    /\ ws = materialize_all(EmptyWs, src)
    /\ made = [calls |-> 1, prevOk |-> FALSE, wsAtCall |-> EmptyWs]
    /\ calls = <<>>

\* Variant of Connect that keeps the pid only if the process is there.
Connect_verifies ==
    /\ pc = "nomachine"
    /\ \E p \in ConnectPids :
        /\ pid' = IF p \in procs THEN p ELSE None
        /\ trace' = <<Ev("connect", p, "")>>
        /\ Return("connect", Ok, pid', procs)
    /\ UNCHANGED <<cfg, procs, nextPid, fs, elapsed, idx, reqs, origErr, hist, disk, apart>>

\* Machine::connect(config, pid): the Machine is the Config, the pid as
\* given and a new client; nothing else is done.
Connect ==
    /\ pc = "nomachine"
    /\ \E p \in ConnectPids :
        /\ pid' = p
        /\ trace' = <<Ev("connect", p, "")>>
        /\ Return("connect", Ok, p, procs)
    /\ UNCHANGED <<cfg, procs, nextPid, fs, elapsed, idx, reqs, origErr, hist, disk, apart>>

\* Machine::force_shutdown with the command it runs: in Tmux mode, when the
\* tmux binary could be spawned, the log gets `tmux kill-session -t <name>`.
ForceShutdownCommand ==
    /\ pc = "idle"
    /\ \E out \in force_shutdown(pid, procs, cfg.mode) :
        /\ pid' = out.pid
        /\ procs' = out.procs
        /\ trace' = fs_events(pid, out)
        /\ calls' = IF out.tmux THEN Append(calls, kill_session_argv(bld)) ELSE calls
        /\ Return("force_shutdown", out.res, out.pid, out.procs)
    /\ UNCHANGED <<cfg, nextPid, fs, elapsed, idx, reqs, origErr, hist, disk, bld>>

NextConnect ==
    \/ Connect
    \/ StartAlreadyRunning
    \/ StartCleanup
    \/ ForceShutdownCommand

SpecConnect == InitConnect /\ [][NextConnect]_vars

\* =================================================================== claims
\* The last returned call was a start that got past the state check.
StartReturned == pc = "idle" /\ result.op = "start" /\ result.res.kind # "ProcessAlreadyRunning"
StartFailed == StartReturned /\ result.res # Ok

\* The answer recorded with a PUT was a 2xx.
Answered2xx(r) == r.kind = "status" /\ r.status \in 200..299

\* C1: over calls that all returned Ok, the state observed after create is
\* Shutoff, and the observed state changes from Shutoff to Running only
\* across a successful start (so the collapsed observations alternate
\* Shutoff, Running, Shutoff, ... starting with Shutoff).
C1_ObservedStates ==
    /\ obs = SHUTOFF
    /\ [][ (allOk' /\ obs = SHUTOFF /\ obs' = RUNNING)
              => (result'.op = "start" /\ result'.res = Ok) ]_vars

\* C1 witness: two successful starts with a successful force_shutdown between.
C1_Witness ==
    /\ allOk /\ pc = "idle" /\ obs = RUNNING
    /\ result = [op |-> "start", res |-> Ok]
    /\ nextPid = 3

\* C2 (as claimed): a start invoked in Shutoff that returns an error leaves
\* state() = Shutoff, also when the internal force_shutdown failed.
C2_FailedStartIsShutoff == StartFailed => obs = SHUTOFF

\* C3: start invoked while state() is Running returns ProcessAlreadyRunning
\* and deletes nothing, spawns nothing, sends no request and keeps the pid.
C3_StartWhileRunning ==
    [][ (pc = "idle" /\ pid # None /\ pid \in procs /\ result' # result /\ result'.op = "start")
          => /\ result'.res = Err("ProcessAlreadyRunning")
             /\ pc' = "idle"
             /\ UNCHANGED <<pid, procs, nextPid, fs, reqs, idx, hist>> ]_vars

\* C3 witness: a start was refused while the tracked process is alive.
C3_Witness ==
    /\ pc = "idle"
    /\ result = [op |-> "start", res |-> Err("ProcessAlreadyRunning")]
    /\ pid # None /\ pid \in procs
    /\ fs.sock /\ fs.dev

\* The PUT sequence C4 claims for a Config: one /network-interfaces/<id> per
\* configured interface.
C4_ClaimedSequence(c) ==
    <<Req("machine-config", ""), Req("boot-source", "")>>
    \o [i \in 1..Len(c.drives) |-> Req("drives", c.drives[i])]
    \o [i \in 1..Len(c.ifaces) |-> Req("network-interfaces", c.ifaces[i])]
    \o (IF c.vsock THEN <<Req("vsock", "")>> ELSE <<>>)
    \o <<Req("actions", "InstanceStart")>>

\* C4 (as claimed): after a successful start the PUTs seen by the server are
\* exactly machine-config, boot-source, every drive, every network
\* interface, vsock iff configured, then InstanceStart.
C4_PutOrder ==
    (StartReturned /\ result.res = Ok)
        => [i \in 1..Len(reqs) |-> Req(reqs[i].ep, reqs[i].id)] = C4_ClaimedSequence(cfg)

\* C5: a PUT of start that is not answered 2xx is the last request of that
\* start, and InstanceStart is sent only after every PUT of the configuration
\* sequence was answered 2xx.
C5_FailureAbortsSequence ==
    /\ \A i \in 1..Len(reqs) : ~Answered2xx(reqs[i]) => i = Len(reqs)
    /\ \A i \in 1..Len(reqs) :
          reqs[i].ep = "actions"
              => /\ i = Len(reqs)
                 /\ i = Len(setup_vm(cfg)) + 1
                 /\ \A j \in 1..(i - 1) : Answered2xx(reqs[j]) /\ reqs[j].ep # "actions"

\* C5 witness: a start ended on a failed configuration PUT after earlier
\* PUTs succeeded, and no InstanceStart was sent.
C5_Witness ==
    /\ StartFailed
    /\ Len(reqs) >= 2
    /\ ~Answered2xx(reqs[Len(reqs)])
    /\ reqs[Len(reqs)].ep # "actions"

\* C6 (as claimed): every start that fails after the jailer was spawned has
\* attempted force_shutdown before it returns.
C6_KillAttemptAfterSpawn == (StartFailed /\ hist.spawned) => hist.fsTried

\* C7: when a PUT of start fails, start returns the error of that PUT
\* (FirecrackerAPIError with the answered status, or the transport error),
\* whatever the internal force_shutdown returned.
C7_OriginalErrorReturned ==
    (StartReturned /\ Len(reqs) > 0 /\ ~Answered2xx(reqs[Len(reqs)]))
        => LET r == reqs[Len(reqs)] IN
           IF r.kind = "status"
           THEN result.res = FirecrackerAPIError(r.status)
           ELSE result.res = Err("Hyper")

\* C7 witness: start returned the API error although the internal
\* force_shutdown failed.
C7_Witness ==
    /\ StartReturned
    /\ result.res = FirecrackerAPIError(400)
    /\ hist.fsTried /\ hist.fsRes = "ProcessNotKilled"

\* C8: whenever state() is Running, a GET /version probe of the start that
\* set the pid was answered 2xx.
C8_RunningImpliesProbed == (pid # None /\ pid \in procs) => hist.probeOk

\* C8 witness: the pid was just set after a 2xx probe.
C8_Witness == pc = "setup" /\ idx = 0 /\ pid # None /\ pid \in procs /\ hist.probeOk

\* C9 (as claimed): a start whose probes never got a 2xx does not stay
\* blocked, and returns JailerStartTimedOut with state Shutoff.
C9_TimeoutWhenNeverReady ==
    /\ pc # "hung"
    /\ (StartFailed /\ hist.spawned /\ ~hist.probeOk)
          => (result.res = Err("JailerStartTimedOut") /\ obs = SHUTOFF)

\* C10 (as claimed): an unsuccessful probe before the 10 s deadline never
\* makes start return.
C10_ProbeFailureNeverAborts == StartReturned => ~hist.early

\* C11: if the spawned process exits at any moment before the control socket
\* becomes responsive, start returns ProcessExitedImmediatelly (not a timeout,
\* not a transport error).
C11_ExitBeforeReady ==
    (StartReturned /\ hist.spawned /\ hist.exited /\ ~hist.probeOk)
        => result.res.kind = "ProcessExitedImmediatelly"

\* C12 (as claimed): when the socket has answered 2xx, exactly one matching
\* process makes its pid the tracked pid; zero or several matches make start
\* fail with FailedToStart and no pid is tracked.
C12_AsClaimed ==
    [][ (pc = "probe" /\ pc' # "probe" /\ hist'.probeOk) =>
          IF Cardinality(procs) = 1
          THEN pid' \in procs /\ pc' = "setup"
          ELSE pc' = "idle" /\ result'.res = Err("FailedToStart") /\ pid' = None ]_vars

\* C12 (amended): when the socket has answered 2xx, exactly one matching
\* process makes its pid the tracked pid; zero or several matches make start
\* fail with FailedToStart and the tracked pid stays what it was before start.
C12_PidDiscovery ==
    [][ (pc = "probe" /\ pc' # "probe" /\ hist'.probeOk) =>
          IF Cardinality(procs) = 1
          THEN pid' \in procs /\ pc' = "setup"
          ELSE pc' = "idle" /\ result'.res = Err("FailedToStart") /\ pid' = pid ]_vars

\* C12 witness: start failed with FailedToStart on two matching processes.
C12_Witness ==
    /\ StartReturned
    /\ result.res = Err("FailedToStart")
    /\ hist.probeOk
    /\ Cardinality(procs) = 2

\* The step is a force_shutdown call of the user that returns.
ForceShutdownReturns ==
    /\ pc = "idle"
    /\ pc' = "idle"
    /\ result'.op = "force_shutdown"
    /\ <<result, trace>>' # <<result, trace>>

\* The events of kind ev in a trace.
Events(t, ev) == {i \in 1..Len(t) : t[i].ev = ev}

\* C13: a force_shutdown that returns Ok on a Running Machine leaves state
\* Shutoff and no tracked pid; in Daemon and Attached modes the kill signal
\* was delivered to the tracked pid before it returned.
C13_ForceShutdownOk ==
    [][ (ForceShutdownReturns /\ state(pid, procs) = RUNNING /\ result'.res = Ok) =>
          /\ pid' = None
          /\ state(pid', procs') = SHUTOFF
          /\ obs' = SHUTOFF
          /\ cfg.mode \in {"Daemon", "Attached"} =>
                \E i \in Events(trace', "signal") : trace'[i].pid = pid ]_vars

\* C13 witness: in Daemon mode force_shutdown returned Ok after signalling pid 1.
C13_Witness ==
    /\ cfg.mode = "Daemon"
    /\ pc = "idle"
    /\ result = [op |-> "force_shutdown", res |-> Ok]
    /\ trace = <<Ev("signal", 1, ""), Ev("force_shutdown", 1, "Ok")>>
    /\ pid = None

\* C14 (as claimed): force_shutdown called while state() is Shutoff fails
\* with ProcessNotStarted, sends no kill signal and runs no tmux command.
C14_AsClaimed ==
    [][ (ForceShutdownReturns /\ state(pid, procs) = SHUTOFF) =>
          /\ result'.res = Err("ProcessNotStarted")
          /\ Events(trace', "signal") = {}
          /\ Events(trace', "tmux kill-session") = {} ]_vars

\* C14 (amended): force_shutdown called while no pid is tracked (never
\* started, or already force-shut-down) fails with ProcessNotStarted, sends
\* no kill signal and runs no tmux command.
C14_ForceShutdownNoPid ==
    [][ (ForceShutdownReturns /\ pid = None) =>
          /\ result'.res = Err("ProcessNotStarted")
          /\ Events(trace', "signal") = {}
          /\ Events(trace', "tmux kill-session") = {} ]_vars

\* C14 witness: after a successful start the pid was cleared, and a further
\* force_shutdown returned ProcessNotStarted.
C14_Witness ==
    /\ pc = "idle"
    /\ hist.retAt = "ok"
    /\ pid = None
    /\ result = [op |-> "force_shutdown", res |-> Err("ProcessNotStarted")]
    /\ trace = <<Ev("force_shutdown", None, "ProcessNotStarted")>>

\* The step is a shutdown call of the user that returns.
ShutdownReturns ==
    /\ pc = "idle"
    /\ pc' = "idle"
    /\ result'.op = "shutdown"
    /\ <<result, trace>>' # <<result, trace>>

\* C15: shutdown sends exactly one request, PUT /actions with SendCtrlAltDel,
\* and leaves the tracked pid and state() as they were, whether the request
\* succeeds or fails.
C15_ShutdownFrame ==
    [][ ShutdownReturns =>
          /\ Len(trace') = 1
          /\ trace'[1].ev = "PUT /actions SendCtrlAltDel"
          /\ trace'[1].res = result'.res.kind
          /\ reqs' = reqs
          /\ pid' = pid
          /\ state(pid', procs') = state(pid, procs)
          /\ obs' = state(pid, procs) ]_vars

\* C15 witness: shutdown returned Ok and the Machine is still Running.
C15_Witness ==
    /\ pc = "idle"
    /\ result = [op |-> "shutdown", res |-> Ok]
    /\ trace = <<Ev("PUT /actions SendCtrlAltDel", None, "Ok")>>
    /\ pid # None
    /\ pid \in procs

\* The steps of delete among the entries of a trace, in the order they happened.
DeleteStepNames == {"PUT /actions SendCtrlAltDel", "sleep", "force_shutdown", "remove_dir_all"}
IsDeleteStep(e) == e.ev \in DeleteStepNames
DeleteSteps(t) == LET st == SelectSeq(t, IsDeleteStep) IN [i \in 1..Len(st) |-> st[i].ev]
IsPrefix(a, b) == Len(a) <= Len(b) /\ a = SubSeq(b, 1, Len(a))
\* delete was called on a Running Machine (it began with the shutdown request).
DeleteOfRunning ==
    /\ result.op = "delete"
    /\ trace # <<>>
    /\ trace[1].ev = "PUT /actions SendCtrlAltDel"
FullDeleteOrder == <<"PUT /actions SendCtrlAltDel", "sleep", "force_shutdown", "remove_dir_all">>
ShortDeleteOrder == <<"PUT /actions SendCtrlAltDel", "force_shutdown", "remove_dir_all">>

\* C16 (as claimed): delete on a Running Machine does, in this order, the
\* SendCtrlAltDel request, the 10-second wait, the force_shutdown kill
\* attempt and the removal of the VM directory, the wait and the kill attempt
\* both whether or not the request succeeded.
C16_AsClaimed ==
    DeleteOfRunning =>
        /\ IsPrefix(DeleteSteps(trace), FullDeleteOrder)
        /\ pc = "deleted" => DeleteSteps(trace) = FullDeleteOrder

\* C16 (amended): delete on a Running Machine does, in this order, the
\* SendCtrlAltDel request, the 10-second wait only if that request succeeded,
\* the force_shutdown kill attempt in both cases, and the removal of the VM
\* directory; the kill attempt never precedes the request.
C16_DeleteOrder ==
    DeleteOfRunning =>
        LET order == IF trace[1].res = "Ok" THEN FullDeleteOrder ELSE ShortDeleteOrder IN
        /\ IsPrefix(DeleteSteps(trace), order)
        /\ pc = "deleted" => DeleteSteps(trace) = order
        /\ \A i \in Events(trace, "sleep") : trace[i].res = ToString(DELETE_WAIT_SECS)

\* C16 witness: delete returned after a failed shutdown request, the kill
\* attempt and the removal, without the wait.
C16_Witness ==
    /\ pc = "deleted"
    /\ DeleteOfRunning
    /\ trace[1].res = "Hyper"
    /\ DeleteSteps(trace) = ShortDeleteOrder

\* C17: delete returns only from the recursive removal of the VM directory,
\* whatever its shutdown and force_shutdown steps returned; its result is the
\* result of that removal, and after Ok the directory does not exist.
C17_DeleteReachesRemoval ==
    result.op = "delete" =>
        /\ pc # "deleted" => result.res = Pending
        /\ pc = "deleted" =>
              /\ trace # <<>>
              /\ trace[Len(trace)].ev = "remove_dir_all"
              /\ result.res.kind = trace[Len(trace)].res
              /\ result.res \in {Ok, Err("Io")}
              /\ result.res = Ok => ~vmDir

\* C17 witness: delete returned Ok with the directory gone although the
\* shutdown request and the kill had both failed.
C17_Witness ==
    /\ pc = "deleted"
    /\ result = [op |-> "delete", res |-> Ok]
    /\ ~vmDir
    /\ DeleteOfRunning
    /\ trace[1].res = "FirecrackerAPIError"
    /\ \E i \in Events(trace, "force_shutdown") : trace[i].res = "ProcessNotKilled"

\* C18 (as claimed): delete does not return while the process it tracked is
\* alive unless both its shutdown step and its force_shutdown step failed.
C18_NoReturnWhileAlive ==
    (pc = "deleted" /\ DeleteOfRunning) =>
        \A i \in Events(trace, "force_shutdown") :
            trace[i].pid \in procs => (trace[1].res # "Ok" /\ trace[i].res # "Ok")

\* The last call was a create that returned a Machine.
CreateOk == pc = "idle" /\ result = [op |-> "create", res |-> Ok]

\* C19: a successful create returns a Machine in state Shutoff with no
\* tracked pid; create spawns no process and sends no REST request, and all
\* it does is create directories and copy files inside the workspace.
C19_CreateEffects ==
    /\ CreateOk => (pid = None /\ obs = SHUTOFF /\ state(pid, procs) = SHUTOFF /\ vmDir)
    /\ result.op = "create" =>
          /\ procs = {}
          /\ nextPid = 1
          /\ reqs = <<>>
          /\ fs = NoFiles
          /\ \A i \in 1..Len(trace) :
                \/ trace[i].ev = "mkdir" /\ trace[i].res \in {"root", "root/run"}
                \/ trace[i].ev = "copy" /\ trace[i].res \in WsNames

\* C19 witness: a first create returned Ok after copying the kernel, the
\* initrd and two drives.
C19_Witness ==
    /\ CreateOk
    /\ made.calls = 1
    /\ Cardinality(Events(trace, "copy")) = 4
    /\ pid = None

\* C20: a create that follows a successful create of the same Config leaves
\* the workspace as the first one left it, copies no file, and does not fail
\* (short of an io error of a directory creation or of being dropped).
C20_SecondCreate ==
    (made.prevOk /\ result.op = "create") =>
        /\ ws = made.wsAtCall
        /\ Events(trace, "copy") = {}
        /\ (pc \in {"idle", "nomachine"} /\ result.res \notin {Ok, Err("Cancelled")}) =>
              (result.res = Err("Io") /\ trace[Len(trace)].ev = "mkdir")

\* C20 witness: the second create of a Config with an initrd and two drives
\* returned Ok.
C20_Witness ==
    /\ CreateOk
    /\ made.prevOk
    /\ made.calls = 2
    /\ src.initrd # ""
    /\ Len(src.drives) = 2
    /\ ws = made.wsAtCall
    /\ ws[KERNEL_IMAGE_FILENAME] = KernelSrc

\* C21 (as claimed): after any successful create, also one that follows a
\* failed or dropped create, the workspace holds the kernel, the initrd (if
\* set) and one file per drive, each with the content of its source.
C21_WorkspaceMatchesSources ==
    CreateOk =>
        /\ ws[KERNEL_IMAGE_FILENAME] = KernelSrc
        /\ src.initrd # "" => ws[file_name(src.initrd)] = src.initrd
        /\ \A i \in 1..Len(src.drives) : ws[file_name(src.drives[i])] = src.drives[i]

\* The step is the pre-start cleanup of a start failing with its error.
CleanupFails ==
    /\ pc = "idle"
    /\ pc' = "idle"
    /\ result'.op = "start"
    /\ result'.res.kind # "ProcessAlreadyRunning"
    /\ hist'.retAt = "cleanup"
    /\ <<result, hist, fs>>' # <<result, hist, fs>>

\* C22: when start is about to spawn the jailer, the host socket file, the
\* vsock file (if a vsock is configured) and workspace/dev are absent whatever
\* was left behind; and the cleanup fails only on a path that was there.
C22_CleanBeforeSpawn ==
    /\ [](pc = "spawn" => (~fs.sock /\ (cfg.vsock => ~fs.vsock) /\ ~fs.dev))
    /\ [][ CleanupFails => (fs.sock \/ (cfg.vsock /\ fs.vsock) \/ fs.dev) ]_vars

\* C22 witness: a second start is about to spawn after the first one left
\* the socket, the vsock file and dev/ behind.
C22_Witness ==
    /\ pc = "spawn"
    /\ nextPid = 2
    /\ cfg.vsock
    /\ fs = NoFiles
    /\ hist.cleaned

\* A built Config has been read.
ConfigWasRead == bld.stage = "read"

\* The text C/F/V/root for the Config that was built: chroot base directory,
\* file name of the firecracker binary, VM id.
ChrootText ==
    LET j == bld.jailer_cfg[1] IN
    to_str(j.chroot_base_dir) \o "/" \o j.exec_file.comps[Len(j.exec_file.comps)]
        \o "/" \o bld.vm_id \o "/root"

\* C23: for chroot base directory C, firecracker binary of file name F, VM id
\* V and socket path S, host_socket_path() is C/F/V/root/S with the leading
\* slash of S removed, kernel_image_path() is C/F/V/root/kernel, and
\* initrd_path() is C/F/V/root/<file name of the source initrd>.
C23_HostPaths ==
    ConfigWasRead =>
        /\ to_str(bld.out[1].host_socket_path)
             = ChrootText \o "/" \o join_comps(bld.socket_path.comps)
        /\ to_str(bld.out[1].kernel_image_path) = ChrootText \o "/kernel"
        /\ bld.out[1].initrd_path.val # NoneOpt =>
             to_str(bld.out[1].initrd_path.val[1])
               = ChrootText \o "/"
                   \o bld.src_initrd_path[1].comps[Len(bld.src_initrd_path[1].comps)]

\* C23 witness: a Config with an absolute socket path and an initrd, whose
\* VM id was set after the jailer was configured, has been read.
C23_Witness ==
    /\ ConfigWasRead
    /\ bld.socket_path.abs
    /\ bld.out[1].initrd_path.val # NoneOpt
    /\ bld.jailer_cfg[1].workspace_dir # bld.jailer_workspace_dir

\* C24: the boot source sent to firecracker names the files as the guest sees
\* them: kernel_image_path is /kernel; initrd_path is / followed by the file
\* name of the source initrd when one is set and absent when none is;
\* boot_args are the kernel_args, absent when none were given; and an initrd
\* source without a file name gives InvalidInitrdPath.
C24_BootSource ==
    ConfigWasRead =>
        LET b == bld.out[1].boot_source
            i == bld.src_initrd_path IN
        IF i # NoneOpt /\ i[1].comps[Len(i[1].comps)] = ".."
        THEN b.res = "InvalidInitrdPath"
        ELSE /\ b.res = "Ok"
             /\ to_str(b.kernel_image_path) = "/kernel"
             /\ i = NoneOpt => b.initrd_path = NoneOpt
             /\ i # NoneOpt =>
                  /\ b.initrd_path # NoneOpt
                  /\ to_str(b.initrd_path[1]) = "/" \o i[1].comps[Len(i[1].comps)]
             /\ b.boot_args = bld.kernel_args

\* C24 witness: the boot source of a Config with an initrd and kernel
\* arguments has been computed.
C24_Witness ==
    /\ ConfigWasRead
    /\ bld.out[1].boot_source.res = "Ok"
    /\ bld.out[1].boot_source.initrd_path # NoneOpt
    /\ bld.kernel_args # NoneOpt

\* C25 (as claimed): no Config is built with more than one drive whose
\* is_root_device is true.
C25_OneRootDevice ==
    bld.stage \in {"built", "read"} =>
        Cardinality({i \in 1..Len(bld.roots) : bld.roots[i]}) <= 1

\* C26 (as claimed): a jailer exec_file without a file name never makes a
\* step of the builder chain abort the program; the chain goes on to the
\* top-level build(), which returns InvalidJailerExecPath.
C26_NoAbortOnExecFile ==
    ~(bld.stage = "panicked" /\ bld.res = "invalid jailer exec file path")

\* The command line the jailer is started with, as the arguments after the
\* jailer binary.
JailerArgs ==
    LET j == bld.jailer_cfg[1] IN
    <<"--id", bld.vm_id, "--exec-file", to_str(j.exec_file), "--uid", j.uid,
      "--gid", j.gid, "--chroot-base-dir", to_str(j.chroot_base_dir), "--",
      "--api-sock", to_str(bld.socket_path)>>

\* C27: start runs the jailer binary with, in this order, --daemonize (in
\* Daemon mode only), --id, --exec-file, --uid, --gid, --chroot-base-dir,
\* `--` and --api-sock with the socket path as the guest sees it; in Tmux
\* mode the whole is preceded by `tmux new-session -d -s <session name>`,
\* the session name being the one given or the VM id.
C27_JailerCommand ==
    ConfigWasRead =>
        LET j == bld.jailer_cfg[1]
            argv == bld.out[1].argv IN
        /\ j.mode.mode = "Daemon" => argv = <<"jailer", "--daemonize">> \o JailerArgs
        /\ j.mode.mode = "Attached" => argv = <<"jailer">> \o JailerArgs
        /\ j.mode.mode = "Tmux" =>
             argv = <<"tmux", "new-session", "-d", "-s",
                      IF j.mode.session = NoneOpt THEN bld.vm_id ELSE j.mode.session[1],
                      "jailer">> \o JailerArgs

\* C27 witness: the command of a Tmux-mode jailer with a named session and an
\* absolute socket path has been built.
C27_Witness ==
    /\ ConfigWasRead
    /\ bld.jailer_cfg[1].mode.mode = "Tmux"
    /\ bld.jailer_cfg[1].mode.session = Some("vmsession")
    /\ bld.socket_path.abs
    /\ bld.out[1].argv[1] = "tmux"

\* C28 (as claimed): every request of the control client ends in one of two
\* outcomes, success or FirecrackerAPIError.
C28_AsClaimed ==
    \A i \in 1..Len(calls) : calls[i].ret.res.kind \in {"Ok", "FirecrackerAPIError"}

\* C28 (amended): a request that is answered, and whose body can be read when
\* the status is not 2xx, succeeds on a 2xx status and otherwise fails with
\* FirecrackerAPIError of that status and the body as text, no body when the
\* response body is empty; a request that is not answered, or whose error
\* body cannot be read, fails with the transport error.
C28_RequestOutcome ==
    \A i \in 1..Len(calls) :
        LET c == calls[i] IN
        IF c.o.kind = "transport" THEN c.ret.res = Err("Hyper")
        ELSE IF c.o.status \in 200..299 THEN c.ret.res = Ok
        ELSE IF ~c.readable THEN c.ret.res = Err("Hyper")
        ELSE /\ c.ret.res = FirecrackerAPIError(c.o.status)
             /\ c.bytes = <<>> => c.ret.body = NoneOpt
             /\ c.bytes # <<>> =>
                  /\ c.ret.body # NoneOpt
                  /\ Len(c.ret.body[1]) = Len(c.bytes)
                  /\ \A k \in 1..Len(c.bytes) :
                        c.bytes[k] # "0xFF" => c.ret.body[1][k] = c.bytes[k]

\* C28 witness: the client got a non-2xx answer with an empty body and one
\* with a body.
C28_Witness ==
    /\ Len(calls) = 2
    /\ calls[1].ret = [res |-> FirecrackerAPIError(400), body |-> NoneOpt]
    /\ calls[2].ret.res = FirecrackerAPIError(500)
    /\ calls[2].ret.body # NoneOpt

\* The error kinds the specification lists.
Taxonomy ==
    {"InvalidJailerExecPath", "InvalidChrootBasePath", "InvalidSocketPath",
     "InvalidDrivePath", "InvalidInitrdPath", "Io", "ProcessExitedImmediatelly",
     "JailerStartTimedOut", "FailedToStart", "FirecrackerAPIError",
     "ProcessAlreadyRunning", "ProcessNotStarted", "ProcessNotRunning",
     "ProcessNotKilled", "Json"}

\* An operation has returned an error (a dropped create returns nothing).
ReturnedError ==
    /\ pc \in {"idle", "nomachine"}
    /\ result.op # "none"
    /\ result.res \notin {Ok, Pending, Err("Cancelled")}

\* C29 (as claimed): every error an operation returns has a kind of the
\* listed taxonomy.
C29_AsClaimed == ReturnedError => result.res.kind \in Taxonomy

\* C29 (amended): every error an operation returns has a kind of the listed
\* taxonomy or is one of Hyper, Http and JoinError; a start whose last REST
\* request failed in the transport returns Hyper.
C29_ErrorKinds ==
    /\ ReturnedError => result.res.kind \in Taxonomy \cup {"Hyper", "Http", "JoinError"}
    /\ (StartReturned /\ Len(reqs) > 0 /\ reqs[Len(reqs)].kind = "transport")
          => result.res.kind = "Hyper"

\* C29 witness: start returned after the transport failed under a request of
\* the configuration sequence that followed an answered one.
C29_Witness ==
    /\ StartReturned
    /\ Len(reqs) > 1
    /\ reqs[Len(reqs)].kind = "transport"
    /\ result.res.kind = "Hyper"

\* C30: during start at most one REST request is in flight, and a request of
\* the configuration sequence or the InstanceStart action is sent only after
\* the response to the one before it has arrived.
C30_OneRequestInFlight ==
    /\ [](Cardinality(in_flight(calls)) <= 1)
    /\ [](\A i \in 1..Len(calls) : i < Len(calls) => calls[i].answered)
    /\ [][ Len(calls') > Len(calls) => \A i \in 1..Len(calls) : calls[i].ret = Ok ]_vars

\* C30 witness: the InstanceStart request is in flight after every request of
\* the configuration of a VM with a drive, an interface and a vsock was answered.
C30_Witness ==
    /\ Len(calls) = Len(start_sequence(cfg))
    /\ Len(cfg.drives) > 0 /\ Len(cfg.ifaces) > 0 /\ cfg.vsock
    /\ in_flight(calls) = {Len(calls)}
    /\ calls[Len(calls)].id = "InstanceStart"

\* C35 (as claimed): in every Config that was built, whatever the order of
\* the builder calls, the workspace_dir of the jailer (used by create, by the
\* cleanup of start and by delete) is the workspace directory of the Config
\* (used for the kernel, the initrd and the host socket), which is
\* chroot_base_dir/<file name of exec_file>/<final vm_id>/root.
C35_OneWorkspaceDir ==
    bld.stage \in {"built", "read"} =>
        /\ bld.jailer_cfg[1].workspace_dir = bld.jailer_workspace_dir
        /\ to_str(bld.jailer_workspace_dir) = ChrootText

\* C38 (as claimed): every start of a Machine in Attached mode launches the
\* jailer with the stdio handles the caller configured, the later starts as
\* the first one.
C38_OverridesOnEveryStart ==
    (bld.stage = "read" /\ bld.jailer_cfg[1].mode.mode = "Attached") =>
        \A i \in 1..Len(bld.launches) : bld.launches[i].stdio = bld.launches[1].stdio

\* The step is a connect call.
ConnectReturns == pc = "nomachine" /\ pc' = "idle" /\ result'.op = "connect"

\* The Machine is as connect(config, None) left it.
ConnectedWithoutPid == pc = "idle" /\ result.op = "connect" /\ trace[1].pid = None

\* C31: connect tracks the pid the caller gave, verifies nothing and touches
\* nothing: no file is made or removed, no process spawned or killed, no
\* request sent; connected with no pid the Machine is Shutoff, a start of it
\* is not refused and a force_shutdown of it fails with ProcessNotStarted.
C31_ConnectTracksGivenState ==
    /\ [][ ConnectReturns =>
             /\ pid' = trace'[1].pid
             /\ result'.res = Ok
             /\ UNCHANGED <<cfg, procs, nextPid, fs, vmDir, ws, reqs, calls>> ]_vars
    /\ [][ ConnectedWithoutPid =>
             /\ obs = SHUTOFF /\ state(pid, procs) = SHUTOFF
             /\ result'.op = "start" => result'.res.kind # "ProcessAlreadyRunning"
             /\ result'.op = "force_shutdown" =>
                  (result'.res = Err("ProcessNotStarted") /\ procs' = procs) ]_vars

\* C31 witness: connected with no pid although a process of the VM runs, the
\* Machine refused the force_shutdown and left the process alone.
C31_Witness ==
    /\ pc = "idle"
    /\ result = [op |-> "force_shutdown", res |-> Err("ProcessNotStarted")]
    /\ pid = None
    /\ procs = {1}

\* The name of the Tmux session start creates: the fifth word of its command.
SessionStarted == jailer_argv(bld)[5]

\* C39: in Tmux mode a force_shutdown of a Machine with a tracked pid sends
\* the pid no signal; when the tmux command could be run it is
\* `tmux kill-session -t <name>` for the session name start gave, and the
\* call returns Ok with state Shutoff whether or not the process went away;
\* when it could not be run the call fails and the pid is kept.
C39_TmuxKillsSession ==
    [][ (ForceShutdownReturns /\ cfg.mode = "Tmux" /\ pid # None) =>
          /\ Events(trace', "signal") = {}
          /\ IF Events(trace', "tmux kill-session") # {}
             THEN /\ result'.res = Ok
                  /\ pid' = None
                  /\ obs' = SHUTOFF
                  /\ Len(calls') = Len(calls) + 1
                  /\ calls'[Len(calls')] = <<"tmux", "kill-session", "-t", SessionStarted>>
             ELSE /\ result'.res = Err("Io")
                  /\ pid' = pid
                  /\ calls' = calls ]_vars

\* C39 witness: the session with a configured name was killed, the call
\* returned Ok, and the process of the tracked pid is still there.
C39_Witness ==
    /\ pc = "idle"
    /\ result = [op |-> "force_shutdown", res |-> Ok]
    /\ cfg.mode = "Tmux"
    /\ bld.jailer_cfg[1].mode.session # NoneOpt
    /\ calls = <<kill_session_argv(bld)>>
    /\ pid = None
    /\ procs = {1}

\* The requests of the log sent to endpoint ep.
SentTo(ep) == {i \in 1..Len(calls) : calls[i].ep = ep}

\* The request sequence of start ran to its end.
SequenceDone == pc = "idle" /\ result = [op |-> "start", res |-> Ok]

DriveSent(i) == drive_at(cfg, src, drive_index(cfg, calls[i].id))

\* The next step of the sequence is to configure a drive whose source path
\* has no file name.
NextDriveInvalid ==
    /\ pc = "setup"
    /\ in_flight(calls) = {}
    /\ Len(calls) < Len(start_sequence(cfg))
    /\ invalid_drive(cfg, src, start_sequence(cfg)[Len(calls) + 1])

\* C34: a PUT /drives/<drive_id> carries the drive_id, is_read_only,
\* is_root_device and part_uuid of that drive and, as path_on_host, the file
\* name of its source path, the name of a file in the workspace a successful
\* create made; the Config keeps its drives as they were; and a drive whose
\* source path has no file name ends the sequence with InvalidDrivePath
\* before its request is sent.
C34_DrivePayload ==
    /\ [](\A i \in SentTo("drives") :
          /\ calls[i].body.drive_id = calls[i].id
          /\ calls[i].body.is_read_only = DriveSent(i).is_read_only
          /\ calls[i].body.is_root_device = DriveSent(i).is_root_device
          /\ calls[i].body.part_uuid = DriveSent(i).part_uuid
          /\ calls[i].body.path_on_host \in WsNames
          /\ DriveSent(i).src_path \in {"/x/a.img", "/y/a.img"} => calls[i].body.path_on_host = "a.img"
          /\ DriveSent(i).src_path = "/x/b.img" => calls[i].body.path_on_host = "b.img"
          /\ valid_sources(src) => ws[calls[i].body.path_on_host] # "")
    /\ [][ /\ UNCHANGED <<cfg, src>>
           /\ NextDriveInvalid =>
                (pc' = "rollback" /\ origErr' = Err("InvalidDrivePath") /\ calls' = calls) ]_vars

\* C34 witness: both drives of a Config were sent, the second one from a
\* source in another directory.
C34_Witness ==
    /\ Cardinality(SentTo("drives")) = 2
    /\ src.drives = <<"/x/b.img", "/y/a.img">>
    /\ \A i \in SentTo("drives") : calls[i].answered

\* The process of the tracked pid is gone although the pid is still recorded:
\* it exited on its own (a force_shutdown that ends it forgets the pid).
TrackedProcessGone == pid # None /\ pid \notin procs

\* C37: once the tracked process has exited on its own, state() is Shutoff
\* while the pid stays recorded; a start called then is not refused with
\* ProcessAlreadyRunning, and when it discovers the process it spawned the
\* recorded pid is replaced by that of a live process.
C37_StartAfterExit ==
    /\ []((pc = "idle" /\ TrackedProcessGone) => state(pid, procs) = SHUTOFF)
    /\ [][ (pc = "idle" /\ TrackedProcessGone /\ result' # result /\ result'.op = "start")
              => result'.res.kind # "ProcessAlreadyRunning" ]_vars
    /\ [][ (pc = "probe" /\ TrackedProcessGone /\ pc' = "setup")
              => (pid' # pid /\ pid' \in procs') ]_vars

\* C37 witness: the last call that returned left the Machine Running on the
\* first process; with no call between, a second start was accepted and now
\* configures the process it spawned under the new pid.
C37_Witness ==
    /\ pc = "setup"
    /\ obs = RUNNING
    /\ pid = 2
    /\ procs = {2}
    /\ nextPid = 3
    /\ hist.probeOk

\* C36: a force_shutdown that fails with ProcessNotRunning or ProcessNotKilled
\* changes nothing: the pid stays tracked, no process is ended, state() is
\* Running if the process is there; and every force_shutdown of a Machine
\* with a tracked pid is aimed at that pid, a later one as the failed one.
C36_FailedKillKeepsPid ==
    /\ [][ (ForceShutdownReturns /\ result'.res.kind \in {"ProcessNotRunning", "ProcessNotKilled"}) =>
             /\ pid # None
             /\ pid' = pid
             /\ procs' = procs
             /\ cfg' = cfg
             /\ Events(trace', "signal") = {}
             /\ obs' = (IF pid \in procs THEN RUNNING ELSE SHUTOFF)
             /\ result'.res.kind = "ProcessNotKilled" => pid \in procs
             /\ result'.res.kind = "ProcessNotRunning" => pid \notin procs ]_vars
    /\ [][ (ForceShutdownReturns /\ pid # None) => trace'[Len(trace')].pid = pid ]_vars

\* C36 witness: the kill of the live process 1 was rejected; the Machine
\* still tracks it and is Running.
C36_Witness ==
    /\ pc = "idle"
    /\ result = [op |-> "force_shutdown", res |-> Err("ProcessNotKilled")]
    /\ trace = <<Ev("force_shutdown", 1, "ProcessNotKilled")>>
    /\ pid = 1
    /\ procs = {1}
    /\ obs = RUNNING

\* C33 (as claimed): with a Config of no network interface start does not
\* abort; it skips the /network-interfaces request and goes on with the
\* sequence.
C33_NoInterfaceNoAbort == Len(cfg.ifaces) = 0 => pc # "panicked"

\* C40: delete called on a Machine whose state() is Shutoff goes straight to
\* the removal of the VM directory: no request is sent, nothing is waited
\* for, no kill is attempted, the pid and the processes are left as they are;
\* the removal is all it does.
C40_DeleteOfShutoff ==
    /\ [][ (pc = "idle" /\ state(pid, procs) = SHUTOFF /\ result'.op = "delete" /\ pc' # "idle") =>
             /\ pc' = "del_rm"
             /\ trace' = <<>>
             /\ UNCHANGED <<cfg, pid, procs, fs, vmDir, ws, reqs>> ]_vars
    /\ [][ (pc = "del_rm" /\ trace = <<>> /\ pc' # pc) =>
             /\ pc' = "deleted"
             /\ trace' = <<Ev("remove_dir_all", None, result'.res.kind)>>
             /\ result'.res = Ok => ~vmDir'
             /\ UNCHANGED <<cfg, pid, procs, reqs>> ]_vars

\* C40 witness: delete of a Machine whose tracked process had exited removed
\* the VM directory and did nothing else.
C40_Witness ==
    /\ pc = "deleted"
    /\ trace = <<Ev("remove_dir_all", None, "Ok")>>
    /\ pid = 1
    /\ procs = {}
    /\ ~vmDir

====
